---------------------------- MODULE Spec2Model ----------------------------
(***************************************************************************)
(* A model of the PDF-to-Markdown converter                                *)
(* (src/pdf2markdown/legacy/pdf_to_markdown.py).                           *)
(*                                                                         *)
(* Text is a sequence of characters; a character is a one-token string.    *)
(* Characters outside ASCII carry a name ("ZWSP", "d-stroke", ...).        *)
(* Font sizes and coordinates are integers (points); the comparison with   *)
(* 1.3 times a mean is done on cross-multiplied integers.                  *)
(***************************************************************************)
EXTENDS Integers, Sequences, FiniteSets

VARIABLES
    call,         \* the pending call of a pure method: [fn, ...arguments]
    ret,          \* <<>> before the call returned, <<value>> after
    pc,           \* extract_text_blocks: "idle", "extract", "done"
    total_pages,  \* extract_text_blocks: len(doc)
    page_num,     \* extract_text_blocks: the loop variable (0-based)
    src_idx,      \* number of source blocks of the current page consumed so far
    page_blocks,  \* extract_text_blocks: the blocks of the current page
    blocks,       \* extract_text_blocks: the list that is returned
    stats,        \* self.stats
    origin,       \* history: for each element of blocks, <<page, source index>>
    cls_log,      \* history: for each element of blocks, the classifier calls
                  \* that assigned its block_type, each the page context used
    raised,       \* history: the pages (1-based) whose extraction raised
    conv,         \* convert: the frame of the running call and its environment
    engine,       \* PythonEngine: self.running, stdin, stdout, the loop's position
    batch,        \* batch_convert: its locals and the files of the folder
    gui           \* PDFConverterGUI: its fields, the worker threads, the dialogs

varsPure == <<call, ret>>
varsExtract == <<pc, total_pages, page_num, src_idx, page_blocks, blocks,
                 origin, cls_log>>
varsConvert == <<raised, conv>>
varsApps == <<engine, batch, gui>>
vars == <<call, ret, pc, total_pages, page_num, src_idx, page_blocks, blocks,
          stats, origin, cls_log, raised, conv, engine, batch, gui>>

NoValue == [none |-> TRUE]
AppsIdle == engine = NoValue /\ batch = NoValue /\ gui = NoValue

-----------------------------------------------------------------------------
(* Characters *)

LowerAscii == <<"a","b","c","d","e","f","g","h","i","j","k","l","m",
                "n","o","p","q","r","s","t","u","v","w","x","y","z">>
UpperAscii == <<"A","B","C","D","E","F","G","H","I","J","K","L","M",
                "N","O","P","Q","R","S","T","U","V","W","X","Y","Z">>
\* The Vietnamese letters of the model: those the heading keywords use.
LowerViet == <<"u-horn", "o-horn", "a-circ-grave", "u-dot", "e-circ-grave", "d-stroke">>
UpperViet == <<"U-HORN", "O-HORN", "A-CIRC-GRAVE", "U-DOT", "E-CIRC-GRAVE", "D-STROKE">>
LowerSeq == LowerAscii \o LowerViet
UpperSeq == UpperAscii \o UpperViet

Range(s) == {s[i] : i \in DOMAIN s}

LowerChars == Range(LowerSeq)
UpperChars == Range(UpperSeq)
DigitChars == {"0","1","2","3","4","5","6","7","8","9"}
\* str.isspace() / regex \s
SpaceChars == {" ", "\t", "\n", "\r"}
\* unicodedata.category(c)[0] == 'C': "CTRL" is a C0 control such as U+0001,
\* "ZWSP" the zero-width space U+200B (Cf); neither is whitespace.
ControlChars == {"\t", "\n", "\r", "CTRL", "ZWSP"}
\* regex \w
WordChars == LowerChars \cup UpperChars \cup DigitChars \cup {"_"}
BulletGlyphs == {"BULLET", "WHITE-BULLET", "SMALL-SQUARE", "WHITE-SMALL-SQUARE"}

IndexOf(s, c) == CHOOSE i \in DOMAIN s : s[i] = c
\* str.lower() / str.upper() of one character
ToLower(c) == IF c \in UpperChars THEN LowerSeq[IndexOf(UpperSeq, c)] ELSE c
ToUpper(c) == IF c \in LowerChars THEN UpperSeq[IndexOf(LowerSeq, c)] ELSE c

Rep(c, n) == [i \in 1..n |-> c]
Drop(s, n) == IF n >= Len(s) THEN <<>> ELSE SubSeq(s, n + 1, Len(s))
Take(s, n) == IF n >= Len(s) THEN s ELSE SubSeq(s, 1, n)
Max(a, b) == IF a >= b THEN a ELSE b
Min(a, b) == IF a <= b THEN a ELSE b

\* str.strip()
RECURSIVE LStrip(_)
LStrip(s) == IF s # <<>> /\ s[1] \in SpaceChars THEN LStrip(Tail(s)) ELSE s
RECURSIVE RStrip(_)
RStrip(s) == IF s # <<>> /\ s[Len(s)] \in SpaceChars
             THEN RStrip(SubSeq(s, 1, Len(s) - 1)) ELSE s
Strip(s) == RStrip(LStrip(s))

\* sub in s (Python's "in" on strings)
StartsWith(s, p) == Len(s) >= Len(p) /\ SubSeq(s, 1, Len(p)) = p
Contains(s, sub) == \E i \in 0..(Len(s) - Len(sub)) : SubSeq(s, i + 1, i + Len(sub)) = sub


-----------------------------------------------------------------------------
(* normalize_text *)

\* Step 1: drop every character of a Unicode category C* except \n \t \r.
RemoveControl(s) == SelectSeq(s, LAMBDA c : c \notin ControlChars \/ c \in {"\n", "\t", "\r"})

\* re.sub(r'(A)(B)', r'\1 \2', s) for two one-character classes A and B:
\* leftmost, non-overlapping matches.
RECURSIVE InsertSpaceBetween(_, _, _)
InsertSpaceBetween(s, A, B) ==
    IF Len(s) < 2 THEN s
    ELSE IF s[1] \in A /\ s[2] \in B
         THEN <<s[1], " ", s[2]>> \o InsertSpaceBetween(Drop(s, 2), A, B)
         ELSE <<s[1]>> \o InsertSpaceBetween(Tail(s), A, B)

SentenceEnd == {".", "!", "?"}

\* The replacements table: every entry but the ellipsis maps a character to
\* itself.
RECURSIVE ReplaceLookalikes(_)
ReplaceLookalikes(s) ==
    IF s = <<>> THEN <<>>
    ELSE (IF s[1] = "ELLIPSIS" THEN <<".", ".", ".">> ELSE <<s[1]>>)
         \o ReplaceLookalikes(Tail(s))

\* re.sub(r'[ \t]+', ' ', s)
RECURSIVE CollapseBlanks(_)
CollapseBlanks(s) ==
    IF s = <<>> THEN <<>>
    ELSE IF s[1] \in {" ", "\t"}
         THEN IF Len(s) >= 2 /\ s[2] \in {" ", "\t"}
              THEN CollapseBlanks(Tail(s))
              ELSE <<" ">> \o CollapseBlanks(Tail(s))
         ELSE <<s[1]>> \o CollapseBlanks(Tail(s))

\* re.sub(r'[ \t]+$', '', s, flags=re.MULTILINE): a run of blanks that ends
\* at a newline or at the end of the text is removed.
RECURSIVE BlanksToEol(_)
BlanksToEol(s) ==
    IF s = <<>> THEN TRUE
    ELSE IF s[1] = "\n" THEN TRUE
    ELSE IF s[1] \in {" ", "\t"} THEN BlanksToEol(Tail(s))
    ELSE FALSE
RECURSIVE StripTrailingBlanks(_)
StripTrailingBlanks(s) ==
    IF s = <<>> THEN <<>>
    ELSE IF s[1] \in {" ", "\t"} /\ BlanksToEol(s)
         THEN StripTrailingBlanks(Tail(s))
         ELSE <<s[1]>> \o StripTrailingBlanks(Tail(s))

normalize_text(text) ==
    IF text = <<>> THEN <<>>
    ELSE LET t1 == RemoveControl(text)
             t2 == InsertSpaceBetween(t1, LowerChars, UpperChars)
             t3 == InsertSpaceBetween(t2, SentenceEnd, UpperChars)
             t4 == ReplaceLookalikes(t3)
             t5 == CollapseBlanks(t4)
             t6 == StripTrailingBlanks(t5)
         IN  Strip(t6)

-----------------------------------------------------------------------------
(* detect_block_type *)

HeadingSizeFactorTenths == 13
BoldMaxLen == 150
BoldMinFont == 12
UpperMaxLen == 100
CodeWindow == 50

RECURSIVE SumFontSizes(_)
SumFontSizes(bs) ==
    IF bs = <<>> THEN 0
    ELSE (IF bs[1].font_size > 0 THEN bs[1].font_size ELSE 0) + SumFontSizes(Tail(bs))

\* SizeRule with the factor mistyped as 1.5
SizeRule_Factor15(block, pblocks) ==
    10 * block.font_size * Max(Len(pblocks), 1) > 15 * SumFontSizes(pblocks)

\* block.font_size > avg_font_size * 1.3, where avg_font_size is
\* sum(positive font sizes) / max(len(page_blocks), 1); both sides multiplied
\* by 10 * max(len(page_blocks), 1).
SizeRule(block, pblocks) ==
    10 * block.font_size * Max(Len(pblocks), 1)
        > HeadingSizeFactorTenths * SumFontSizes(pblocks)

BoldRule(block, text) ==
    block.is_bold /\ Len(text) < BoldMaxLen /\ block.font_size > BoldMinFont

\* chuong | chapter | phan | section | muc | de muc
heading_keywords ==
    { <<"c","h","u-horn","o-horn","n","g">>,
      <<"c","h","a","p","t","e","r">>,
      <<"p","h","a-circ-grave","n">>,
      <<"s","e","c","t","i","o","n">>,
      <<"m","u-dot","c">>,
      <<"d-stroke","e-circ-grave"," ","m","u-dot","c">> }

\* c matches the upper-case class; under re.IGNORECASE (ci) a lower-case
\* letter matches it too.
MatchesUpper(c, ci) == c \in UpperChars \/ (ci /\ ToUpper(c) \in UpperChars)
MatchesLiteral(c, lit, ci) == c = lit \/ (ci /\ ToLower(c) = ToLower(lit))

\* ^(keyword)\s+\d+
KeywordPattern(text, ci) ==
    \E kw \in heading_keywords :
        /\ Len(text) > Len(kw)
        /\ \A i \in 1..Len(kw) : MatchesLiteral(text[i], kw[i], ci)
        /\ \E n \in 1..(Len(text) - Len(kw) - 1) :
              /\ \A j \in 1..n : text[Len(kw) + j] \in SpaceChars
              /\ text[Len(kw) + n + 1] \in DigitChars

\* ^\d+\.\s+[A-Z...]
NumberedPattern(text, ci) ==
    \E d \in 1..Len(text) : \E w \in 1..Len(text) :
        /\ d + 1 + w + 1 <= Len(text)
        /\ \A i \in 1..d : text[i] \in DigitChars
        /\ text[d + 1] = "."
        /\ \A j \in 1..w : text[d + 1 + j] \in SpaceChars
        /\ MatchesUpper(text[d + 1 + w + 1], ci)

\* ^[A-Z...\s]{1,100}$  (the text is stripped, so $ is the end of the text)
UpperPattern(text, ci) ==
    /\ Len(text) >= 1
    /\ Len(text) <= UpperMaxLen
    /\ \A i \in 1..Len(text) : text[i] \in SpaceChars \/ MatchesUpper(text[i], ci)

\* for pattern in heading_patterns: if re.match(pattern, text, re.IGNORECASE)
HeadingPatterns(text) ==
    KeywordPattern(text, TRUE) \/ NumberedPattern(text, TRUE) \/ UpperPattern(text, TRUE)

\* ^[\d\w\-\*bullets]\s+
ListPattern1(text) ==
    Len(text) >= 2 /\ text[1] \in (WordChars \cup {"-", "*"} \cup BulletGlyphs)
                   /\ text[2] \in SpaceChars
\* ^[-*bullets]\s+
ListPattern2(text) ==
    Len(text) >= 2 /\ text[1] \in ({"-", "*"} \cup BulletGlyphs) /\ text[2] \in SpaceChars
\* ^\d+[\.\)]\s+
ListPattern3(text) ==
    \E d \in 1..Len(text) :
        /\ d + 2 <= Len(text)
        /\ \A i \in 1..d : text[i] \in DigitChars
        /\ text[d + 1] \in {".", ")"}
        /\ text[d + 2] \in SpaceChars
\* ^[a-z][\.\)]\s+
ListPattern4(text) ==
    Len(text) >= 3 /\ text[1] \in Range(LowerAscii) /\ text[2] \in {".", ")"}
                   /\ text[3] \in SpaceChars
ListPatterns(text) ==
    ListPattern1(text) \/ ListPattern2(text) \/ ListPattern3(text) \/ ListPattern4(text)

code_indicators ==
    { <<"BACKTICK","BACKTICK","BACKTICK">>,
      <<"d","e","f"," ">>,
      <<"c","l","a","s","s"," ">>,
      <<"i","m","p","o","r","t"," ">>,
      <<"f","u","n","c","t","i","o","n"," ">>,
      <<"v","a","r"," ">>,
      <<"c","o","n","s","t"," ">>,
      <<"p","u","b","l","i","c"," ">>,
      <<"p","r","i","v","a","t","e"," ">>,
      <<"s","t","a","t","i","c"," ">>,
      <<"v","o","i","d"," ">>,
      <<"i","n","t"," ">>,
      <<"s","t","r","i","n","g"," ">>,
      <<"<","?","p","h","p">>,
      <<"<","?","=">>,
      <<"<","s","c","r","i","p","t">>,
      <<"<","/","s","c","r","i","p","t",">">>,
      <<"S","E","L","E","C","T"," ">>,
      <<"F","R","O","M"," ">> }

\* any(indicator in text[:50] for indicator in code_indicators)
CodeRule(text) == \E ind \in code_indicators : Contains(Take(text, CodeWindow), ind)

is_heading(block, text, pblocks) ==
    SizeRule(block, pblocks) \/ BoldRule(block, text) \/ HeadingPatterns(text)

detect_block_type(block, pblocks) ==
    LET text == Strip(block.text)
    IN  IF text = <<>> THEN "paragraph"
        ELSE IF is_heading(block, text, pblocks) THEN "heading"
        ELSE IF ListPatterns(text) THEN "list"
        ELSE IF CodeRule(text) THEN "code"
        ELSE "paragraph"

-----------------------------------------------------------------------------
(* TextBlock *)

TextBlock(text, y0, y1, font_size, font_name, is_bold, is_italic, block_type, page) ==
    [text |-> text, x0 |-> 0, y0 |-> y0, x1 |-> 100, y1 |-> y1,
     font_size |-> font_size, font_name |-> font_name,
     is_bold |-> is_bold, is_italic |-> is_italic,
     block_type |-> block_type, page_num |-> page]

-----------------------------------------------------------------------------
(* group_blocks_by_layout *)

GapThreshold == 25

Abs(n) == IF n < 0 THEN 0 - n ELSE n

\* SameGroup with a threshold of 20 units
SameGroup_Gap20(prev, curr) ==
    curr.page_num = prev.page_num /\ Abs(curr.y0 - prev.y1) < 20

\* SameGroup with the abs() left out: the signed gap is compared
SameGroup_Signed(prev, curr) ==
    curr.page_num = prev.page_num /\ curr.y0 - prev.y1 < GapThreshold

\* SameGroup with the page test left out
SameGroup_NoPage(prev, curr) == Abs(curr.y0 - prev.y1) < GapThreshold

\* curr.page_num == prev.page_num and abs(curr.y0 - prev.y1) < 25
SameGroup(prev, curr) ==
    curr.page_num = prev.page_num /\ Abs(curr.y0 - prev.y1) < GapThreshold

\* The loop "for i in range(1, len(blocks))"; i is 1-based here.
RECURSIVE GroupLoop(_, _, _, _)
GroupLoop(bs, i, groups, current_group) ==
    IF i > Len(bs)
    THEN IF current_group # <<>> THEN Append(groups, current_group) ELSE groups
    ELSE IF SameGroup(bs[i - 1], bs[i])
         THEN GroupLoop(bs, i + 1, groups, Append(current_group, bs[i]))
         ELSE GroupLoop(bs, i + 1,
                        IF current_group # <<>> THEN Append(groups, current_group)
                                                ELSE groups,
                        <<bs[i]>>)

group_blocks_by_layout(bs) ==
    IF bs = <<>> THEN <<>> ELSE GroupLoop(bs, 2, <<>>, <<bs[1]>>)

-----------------------------------------------------------------------------
(* restore_deformed_text *)

RECURSIVE Flatten(_)
Flatten(ss) == IF ss = <<>> THEN <<>> ELSE ss[1] \o Flatten(Tail(ss))

LowerText(s) == [i \in DOMAIN s |-> ToLower(s[i])]

\* The maximal runs of characters of class C in s, in order.
RECURSIVE Runs(_, _, _)
Runs(s, C, cur) ==
    IF s = <<>> THEN (IF cur = <<>> THEN <<>> ELSE <<cur>>)
    ELSE IF s[1] \in C THEN Runs(Tail(s), C, Append(cur, s[1]))
         ELSE (IF cur = <<>> THEN <<>> ELSE <<cur>>) \o Runs(Tail(s), C, <<>>)

\* str.split(): the maximal runs of non-whitespace characters.
RECURSIVE SplitWords(_, _)
SplitWords(s, cur) ==
    IF s = <<>> THEN (IF cur = <<>> THEN <<>> ELSE <<cur>>)
    ELSE IF s[1] \notin SpaceChars THEN SplitWords(Tail(s), Append(cur, s[1]))
         ELSE (IF cur = <<>> THEN <<>> ELSE <<cur>>) \o SplitWords(Tail(s), <<>>)

\* ' '.join(words)
RECURSIVE JoinWords(_)
JoinWords(ws) ==
    IF ws = <<>> THEN <<>>
    ELSE IF Len(ws) = 1 THEN ws[1]
    ELSE ws[1] \o <<" ">> \o JoinWords(Tail(ws))

\* regex.findall(r'\b\p{L}+\b', ctx.lower()): the runs of word characters
\* that are letters only (a letter next to a digit or "_" is at no word
\* boundary).
LetterWords(ctx) ==
    { w \in Range(Runs(LowerText(ctx), WordChars, <<>>)) :
        \A i \in DOMAIN w : w[i] \in LowerChars \cup UpperChars }

context_words(context) ==
    UNION { LetterWords(context[i]) : i \in {j \in DOMAIN context : context[j] # <<>>} }

\* fixes, in dictionary order
fixes == << <<"0", "O">>, <<"1", "I">>, <<"5", "S">>, <<"8", "B">> >>

\* word.replace(digit, letter): every occurrence
ReplaceChar(word, digit, letter) ==
    [i \in DOMAIN word |-> IF word[i] = digit THEN letter ELSE word[i]]

\* LooksDeformed with the "len(word) > 2" test left out
LooksDeformed_AnyLength(word) ==
    /\ \E i \in DOMAIN word : word[i] \in DigitChars
    /\ ~(\A i \in DOMAIN word : word[i] \in DigitChars)

\* The word looks deformed: re.search(r'[0-9]', word) and len(word) > 2 and
\* not word.isdigit()
LooksDeformed(word) ==
    /\ \E i \in DOMAIN word : word[i] \in DigitChars
    /\ Len(word) > 2
    /\ ~(\A i \in DOMAIN word : word[i] \in DigitChars)

\* FirstFix with the vocabulary test left out: the first rule whose digit
\* occurs in the word
FirstFix_NoLookup(word, cw) ==
    LET hits == { k \in DOMAIN fixes : \E i \in DOMAIN word : word[i] = fixes[k][1] }
    IN  IF hits = {} THEN 0 ELSE CHOOSE k \in hits : \A h \in hits : k <= h

\* The loop over fixes for one word: the first rule k whose result is in the
\* vocabulary, 0 when there is none.
FirstFix(word, cw) ==
    LET hits == { k \in DOMAIN fixes :
                    LowerText(ReplaceChar(word, fixes[k][1], fixes[k][2])) \in cw }
    IN  IF hits = {} THEN 0 ELSE CHOOSE k \in hits : \A h \in hits : k <= h

RestoreWord(word, cw) ==
    IF LooksDeformed(word) /\ FirstFix(word, cw) # 0
    THEN ReplaceChar(word, fixes[FirstFix(word, cw)][1], fixes[FirstFix(word, cw)][2])
    ELSE word

\* Returns [text, restored]: the text and the number of times
\* self.stats['restored_texts'] was incremented.
restore_deformed_text(text, context) ==
    IF text = <<>> \/ Len(text) < 2 THEN [text |-> text, restored |-> 0]
    ELSE LET cw == context_words(context)
         IN  IF cw # {}
             THEN LET words == SplitWords(text, <<>>)
                      restored_words == [i \in DOMAIN words |-> RestoreWord(words[i], cw)]
                  IN  [text |-> JoinWords(restored_words),
                       restored |-> Cardinality({i \in DOMAIN words :
                                        LooksDeformed(words[i]) /\ FirstFix(words[i], cw) # 0})]
             ELSE [text |-> text, restored |-> 0]

-----------------------------------------------------------------------------
(* convert_to_markdown *)

H1MinFont == 20
H2MinFont == 16
H3MinFont == 14
ContextNeighbours == 3

Digits == <<"0","1","2","3","4","5","6","7","8","9">>
\* str(n) for n >= 0
RECURSIVE Decimal(_)
Decimal(n) == IF n < 10 THEN <<Digits[n + 1]>>
              ELSE Decimal(n \div 10) \o <<Digits[(n % 10) + 1]>>

\* f"\n\n<!-- Trang {block.page_num} -->\n\n"
PageBreak(page) ==
    <<"\n", "\n">> \o <<"<","!","-","-"," ","T","r","a","n","g"," ">> \o Decimal(page)
        \o <<" ","-","-",">">> \o <<"\n", "\n">>

FenceText == <<"BACKTICK", "BACKTICK", "BACKTICK">>

Texts(bs) == [i \in DOMAIN bs |-> bs[i].text]
LastN(s, n) == IF Len(s) <= n THEN s ELSE SubSeq(s, Len(s) - n + 1, Len(s))

\* The context of group g: its own texts, the last 3 of the previous group,
\* the first 3 of the next group.
GroupContext(groups, g) ==
    Texts(groups[g])
    \o (IF g > 1 THEN Texts(LastN(groups[g - 1], ContextNeighbours)) ELSE <<>>)
    \o (IF g < Len(groups) THEN Texts(Take(groups[g + 1], ContextNeighbours)) ELSE <<>>)

\* HeadingLevel with ">=" in place of ">"
HeadingLevel_AtLeast(font_size) ==
    IF font_size >= H1MinFont THEN 1
    ELSE IF font_size >= H2MinFont THEN 2
    ELSE IF font_size >= H3MinFont THEN 3
    ELSE 4

HeadingLevel(font_size) ==
    IF font_size > H1MinFont THEN 1
    ELSE IF font_size > H2MinFont THEN 2
    ELSE IF font_size > H3MinFont THEN 3
    ELSE 4

\* re.match(r'^\d+[\.\)]', text)
NumericMarker(text) ==
    \E d \in 1..Len(text) :
        /\ d + 1 <= Len(text)
        /\ \A i \in 1..d : text[i] \in DigitChars
        /\ text[d + 1] \in {".", ")"}
\* re.match(r'^[-*bullet]', text)
BulletMarker(text) == text # <<>> /\ text[1] \in {"-", "*", "BULLET"}

\* re.match(r'\*\*.*\*\*', t): "." matches no newline
DoubleStarWrapped(t) ==
    /\ Len(t) >= 4 /\ t[1] = "*" /\ t[2] = "*"
    /\ \E j \in 3..(Len(t) - 1) :
          t[j] = "*" /\ t[j + 1] = "*" /\ \A k \in 3..(j - 1) : t[k] # "\n"
\* re.match(r'\*.*\*', t)
StarWrapped(t) ==
    /\ Len(t) >= 2 /\ t[1] = "*"
    /\ \E j \in 2..Len(t) : t[j] = "*" /\ \A k \in 2..(j - 1) : t[k] # "\n"

FormatHeading(block, text) ==
    Rep("#", HeadingLevel(block.font_size)) \o <<" ">> \o text \o <<"\n", "\n">>

FormatList(text) ==
    IF NumericMarker(text) THEN text \o <<"\n">>
    ELSE IF ~BulletMarker(text) THEN <<"-", " ">> \o text \o <<"\n">>
    ELSE text \o <<"\n">>

FormatCode(text) ==
    IF ~StartsWith(text, FenceText)
    THEN FenceText \o <<"\n">> \o text \o <<"\n">> \o FenceText \o <<"\n", "\n">>
    ELSE text \o <<"\n", "\n">>

\* FormatParagraph with the same spacing after every block type
FormatParagraph_NoSpacing(block, text, prev_block_type) ==
    LET f1 == IF block.is_bold /\ ~DoubleStarWrapped(text)
              THEN <<"*", "*">> \o text \o <<"*", "*">> ELSE text
        f2 == IF block.is_italic /\ ~StarWrapped(f1) /\ ~Contains(f1, <<"*", "*">>)
              THEN <<"*">> \o f1 \o <<"*">> ELSE f1
    IN  f2 \o <<"\n", "\n">>

FormatParagraph(block, text, prev_block_type) ==
    LET f1 == IF block.is_bold /\ ~DoubleStarWrapped(text)
              THEN <<"*", "*">> \o text \o <<"*", "*">> ELSE text
        f2 == IF block.is_italic /\ ~StarWrapped(f1) /\ ~Contains(f1, <<"*", "*">>)
              THEN <<"*">> \o f1 \o <<"*">> ELSE f1
    IN  IF prev_block_type = "heading" THEN f2 \o <<"\n", "\n">>
        ELSE IF prev_block_type = "list" THEN <<"\n">> \o f2 \o <<"\n", "\n">>
        ELSE f2 \o <<"\n", "\n">>

\* The branch taken for a block type: anything that is not heading, list or
\* code is rendered as a paragraph.
RenderedType(block_type) ==
    IF block_type \in {"heading", "list", "code"} THEN block_type ELSE "paragraph"

FormatBlock(block, text, prev_block_type) ==
    IF block.block_type = "heading" THEN FormatHeading(block, text)
    ELSE IF block.block_type = "list" THEN FormatList(text)
    ELSE IF block.block_type = "code" THEN FormatCode(text)
    ELSE FormatParagraph(block, text, prev_block_type)

\* NeedsPageBreak with the "prev_page > 0" test left out
NeedsPageBreak_NoGuard(block, prev_page) == block.page_num > prev_page

\* if block.page_num > prev_page and prev_page > 0
NeedsPageBreak(block, prev_page) == block.page_num > prev_page /\ prev_page > 0

\* One iteration of "for block in group".  st is the loop state:
\* markdown_lines, prev_block_type, prev_page, the restored-text count, and
\* src, which records for every element of markdown_lines the position in the
\* input of the block being rendered and whether it is the page-break marker.
RenderBlock(block, idx, context, st) ==
    LET r == restore_deformed_text(block.text, context)
        st1 == [st EXCEPT !.restored = @ + r.restored]
    IN  IF Strip(r.text) = <<>> THEN st1
        ELSE LET brk == NeedsPageBreak(block, st.prev_page)
                 lines1 == IF brk THEN Append(st.markdown_lines, PageBreak(block.page_num))
                                  ELSE st.markdown_lines
                 src1 == IF brk THEN Append(st.src, [blk |-> idx, kind |-> "break"])
                                ELSE st.src
             IN  [markdown_lines |-> Append(lines1,
                                       FormatBlock(block, r.text, st.prev_block_type)),
                  src |-> Append(src1, [blk |-> idx, kind |-> "block"]),
                  prev_block_type |-> RenderedType(block.block_type),
                  prev_page |-> block.page_num,
                  restored |-> st1.restored]

RECURSIVE RenderGroup(_, _, _, _, _)
RenderGroup(group, k, base, context, st) ==
    IF k > Len(group) THEN st
    ELSE RenderGroup(group, k + 1, base, context,
                     RenderBlock(group[k], base + k, context, st))

RECURSIVE RenderGroups(_, _, _, _)
RenderGroups(groups, g, base, st) ==
    IF g > Len(groups) THEN st
    ELSE RenderGroups(groups, g + 1, base + Len(groups[g]),
                      RenderGroup(groups[g], 1, base, GroupContext(groups, g), st))

RenderInit ==
    [markdown_lines |-> <<>>, src |-> <<>>, prev_block_type |-> "None",
     prev_page |-> 0, restored |-> 0]

\* Returns [markdown, markdown_lines, src, restored]: the joined string, the
\* fragments it was joined from, their provenance, and the number of
\* increments of self.stats['restored_texts'].
convert_to_markdown(bs) ==
    IF bs = <<>>
    THEN [markdown |-> <<>>, markdown_lines |-> <<>>, src |-> <<>>, restored |-> 0]
    ELSE LET st == RenderGroups(group_blocks_by_layout(bs), 1, 0, RenderInit)
         IN  [markdown |-> Flatten(st.markdown_lines),
              markdown_lines |-> st.markdown_lines,
              src |-> st.src,
              restored |-> st.restored]

-----------------------------------------------------------------------------
(* extract_text_blocks *)

DefaultFontSize == 12
BoldBit == 16
ItalicBit == 2

\* bool(flags & bit) for a bit that is a power of two
HasBit(flags, bit) == (flags \div bit) % 2 = 1

\* The loop "for span in line.get('spans')" over the spans of a source block,
\* in order.  acc holds block_text, font_size, font_name, is_bold, is_italic.
SpanStep(acc, span) ==
    IF Strip(span.text) # <<>>
    THEN LET acc1 == [acc EXCEPT !.block_text = @ \o span.text \o <<" ">>]
         IN  IF acc.font_name = ""
             THEN [acc1 EXCEPT !.font_size = span.size,
                               !.font_name = span.font,
                               !.is_bold = HasBit(span.flags, BoldBit),
                               !.is_italic = HasBit(span.flags, ItalicBit)]
             ELSE acc1
    ELSE acc

RECURSIVE SpanLoop(_, _)
SpanLoop(spans, acc) ==
    IF spans = <<>> THEN acc ELSE SpanLoop(Tail(spans), SpanStep(acc, spans[1]))

\* PageNumber with the "+ 1" left out
PageNumber_ZeroBased(pn) == pn

\* page_num=page_num + 1
PageNumber(pn) == pn + 1

\* The body of "for block in text_dict['blocks']" for one source block sb:
\* <<>> when no TextBlock is made (an image block, or no text), <<block>>
\* when one is appended to blocks and page_blocks.
BuildBlock(sb, pn) ==
    IF ~sb.has_lines THEN <<>>
    ELSE LET acc == SpanLoop(sb.spans,
                             [block_text |-> <<>>, font_size |-> 0, font_name |-> "",
                              is_bold |-> FALSE, is_italic |-> FALSE])
         IN  IF Strip(acc.block_text) # <<>>
             THEN <<TextBlock(normalize_text(acc.block_text), sb.y0, sb.y1,
                              IF acc.font_size > 0 THEN acc.font_size ELSE DefaultFontSize,
                              acc.font_name, acc.is_bold, acc.is_italic,
                              "paragraph", PageNumber(pn))>>
             ELSE <<>>

\* for block in page_blocks: block.block_type = self.detect_block_type(...)
ClassifyBlocks(pbs) ==
    [i \in DOMAIN pbs |-> [pbs[i] EXCEPT !.block_type = detect_block_type(pbs[i], pbs)]]

\* Bounds of the documents
MaxPages == 2
MaxBlocksPerPage == 2
MaxSpans == 2

\* The spans a page source supplies: a plain word; a zero-width space in bold
\* with no font name and no size; a whitespace-only span; upper-case letters
\* in a large bold italic font.
SourceSpans ==
    { [text |-> <<"x", "1">>, size |-> 12, font |-> "F1", flags |-> 0],
      [text |-> <<"ZWSP">>, size |-> 0, font |-> "", flags |-> 16],
      [text |-> <<" ">>, size |-> 24, font |-> "F2", flags |-> 2],
      [text |-> <<"A", "B">>, size |-> 24, font |-> "F2", flags |-> 18] }

RECURSIVE SeqsUpTo(_, _)
SeqsUpTo(S, n) ==
    IF n = 0 THEN {<<>>}
    ELSE LET shorter == SeqsUpTo(S, n - 1)
         IN  shorter \cup {Append(q, e) : q \in {r \in shorter : Len(r) = n - 1}, e \in S}

\* The blocks of text_dict["blocks"]: image blocks (no "lines") and text
\* blocks of up to MaxSpans spans.
SourceBlocks ==
    { [has_lines |-> FALSE, spans |-> <<>>, y0 |-> 0, y1 |-> 10] }
    \cup { [has_lines |-> TRUE, spans |-> sp, y0 |-> 0, y1 |-> 10] :
             sp \in SeqsUpTo(SourceSpans, MaxSpans) }

ExtractInit ==
    /\ AppsIdle
    /\ pc = "extract"
    /\ total_pages \in 0..MaxPages
    /\ page_num = 0
    /\ src_idx = 0
    /\ page_blocks = <<>>
    /\ blocks = <<>>
    /\ origin = <<>>
    /\ cls_log = <<>>
    /\ raised = {}
    /\ conv = NoValue
    /\ stats = [total_blocks |-> 0, restored_texts |-> 0, errors |-> 0]
    /\ call = NoValue /\ ret = <<>>

\* One iteration of "for block in text_dict['blocks']" that runs to its end.
ExtractBlock ==
    /\ pc = "extract" /\ page_num < total_pages
    /\ src_idx < MaxBlocksPerPage
    /\ \E sb \in SourceBlocks :
          LET made == BuildBlock(sb, page_num)
          IN  /\ blocks' = blocks \o made
              /\ page_blocks' = page_blocks \o made
              /\ origin' = origin \o [i \in DOMAIN made |-> <<page_num + 1, src_idx + 1>>]
              /\ cls_log' = cls_log \o [i \in DOMAIN made |-> <<>>]
    /\ src_idx' = src_idx + 1
    /\ UNCHANGED <<varsApps, pc, total_pages, page_num, stats, call, ret, raised, conv>>

\* Something in the page's try block raises (doc[page_num], get_text, a
\* malformed block or span): the except clause counts the error and
\* continues with the next page.  What was appended to blocks stays there.
PageRaises ==
    /\ pc = "extract" /\ page_num < total_pages
    /\ stats' = [stats EXCEPT !.errors = @ + 1]
    /\ raised' = raised \cup {page_num + 1}
    /\ page_num' = page_num + 1
    /\ src_idx' = 0
    /\ page_blocks' = <<>>
    /\ UNCHANGED <<varsApps, pc, total_pages, blocks, origin, cls_log, call, ret, conv>>

\* The block loop of the page is over: every block of page_blocks is
\* classified (the objects are shared with blocks, whose last
\* len(page_blocks) elements they are), and the next page begins.
ClassifyPage ==
    /\ pc = "extract" /\ page_num < total_pages
    /\ LET n == Len(page_blocks)
           keep == Len(blocks) - n
       IN  /\ blocks' = SubSeq(blocks, 1, keep) \o ClassifyBlocks(page_blocks)
           /\ cls_log' = [j \in DOMAIN cls_log |->
                            IF j > keep
                            THEN Append(cls_log[j],
                                        {page_blocks[i].page_num : i \in DOMAIN page_blocks})
                            ELSE cls_log[j]]
    /\ page_num' = page_num + 1
    /\ src_idx' = 0
    /\ page_blocks' = <<>>
    /\ UNCHANGED <<varsApps, pc, total_pages, stats, origin, call, ret, raised, conv>>

\* The page loop is over: self.stats['total_blocks'] = len(blocks); return.
FinishExtract ==
    /\ pc = "extract" /\ page_num = total_pages
    /\ stats' = [stats EXCEPT !.total_blocks = Len(blocks)]
    /\ pc' = "done"
    /\ UNCHANGED <<varsApps, total_pages, page_num, src_idx, page_blocks, blocks, origin,
                   cls_log, call, ret, raised, conv>>

ExtractNext == ExtractBlock \/ PageRaises \/ ClassifyPage \/ FinishExtract

SpecExtract == ExtractInit /\ [][ExtractNext]_vars

-----------------------------------------------------------------------------
(* Idle values of the variables a specification does not use *)

ZeroStats == [total_blocks |-> 0, restored_texts |-> 0, errors |-> 0]

PureIdle == call = NoValue /\ ret = <<>>
StatsIdle == stats = ZeroStats
ExtractIdle ==
    /\ pc = "idle" /\ total_pages = 0 /\ page_num = 0 /\ src_idx = 0
    /\ page_blocks = <<>> /\ blocks = <<>> /\ origin = <<>> /\ cls_log = <<>>
    /\ raised = {} /\ conv = NoValue

-----------------------------------------------------------------------------
(* SpecClassify: detect_block_type applied to a block of a page *)

\* Bounds of the sampled inputs
MaxPageBlocks == 2

ClassifyTexts ==
    { <<>>,
      <<" ">>,
      <<"1","."," ","f","o","o">>,
      <<"1","."," ","F","o","o">>,
      <<"1","2",")"," ","x">>,
      <<"-"," ","b","a","r">>,
      <<"a",")"," ","b","a","z">>,
      <<"a"," ","b">>,
      <<"*"," ","x">>,
      <<"I","N","V","O","I","C","E">>,
      <<"H","e","l","l","o"," ","w","o","r","l","d">>,
      <<"h","e","l","l","o">>,
      <<"c","h","a","p","t","e","r"," ","1">>,
      <<"C","h","a","p","t","e","r"," ","2"," ","x">>,
      <<"d","e","f"," ","f","(",")">>,
      <<"-"," ","d","e","f"," ","f","(",")">>,
      <<"1",")"," ","i","n","t"," ","x",";">>,
      <<"T","o","t","a","l"," ","d","u","e",":"," ","$","1","0","0">>,
      <<"x"," ","="," ","1">>,
      <<"ZWSP">>,
      <<"BULLET", " ", "x">>,
      \* a code keyword that ends exactly at / just after the 50th character
      Rep("$", CodeWindow - 4) \o <<"d","e","f"," ","f">>,
      Rep("$", CodeWindow - 3) \o <<"d","e","f"," ","f">>,
      \* texts around the 150-character limit of the bold rule
      Rep("$", BoldMaxLen - 1), Rep("$", BoldMaxLen),
      \* upper-case texts around the 100-character limit
      Rep("A", UpperMaxLen), Rep("A", UpperMaxLen + 1) }

\* 13 is exactly 1.3 times the mean of 13 and 7; 24 is more than 1.3 times
\* the mean of 24 and 12 (or 13, or 7).
FontSizes == {7, 12, 13, 24}

FocusBlocks ==
    { TextBlock(t, 0, 10, fs, "F1", b, FALSE, "paragraph", 1) :
        t \in ClassifyTexts, fs \in FontSizes, b \in BOOLEAN }
ContextBlocks ==
    { TextBlock(<<"x", "1">>, 0, 10, fs, "F1", FALSE, FALSE, "paragraph", 1) :
        fs \in FontSizes }

\* Pages of up to MaxPageBlocks blocks: the block to classify at position idx,
\* every other position filled with a context block.
RECURSIVE ContextFills(_)
ContextFills(n) ==
    IF n = 0 THEN {<<>>}
    ELSE {Append(s, c) : s \in ContextFills(n - 1), c \in ContextBlocks}
InsertAt(s, i, e) == SubSeq(s, 1, i - 1) \o <<e>> \o SubSeq(s, i, Len(s))

ClassifyCalls ==
    UNION { { [fn |-> "detect_block_type", idx |-> i,
               page_blocks |-> InsertAt(fill, i, b)] :
                b \in FocusBlocks, i \in 1..(Len(fill) + 1) } :
            fill \in UNION {ContextFills(n) : n \in 0..(MaxPageBlocks - 1)} }

ClassifyInit ==
    /\ AppsIdle
    /\ call \in ClassifyCalls
    /\ ret = <<>>
    /\ StatsIdle /\ ExtractIdle

\* block.block_type = self.detect_block_type(block, blocks, page_blocks)
Classify ==
    /\ ret = <<>>
    /\ ret' = <<detect_block_type(call.page_blocks[call.idx], call.page_blocks)>>
    /\ UNCHANGED <<varsApps, call, stats, varsExtract, varsConvert>>

SpecClassify == ClassifyInit /\ [][Classify]_vars

-----------------------------------------------------------------------------
(* Claims about detect_block_type, checked under SpecClassify *)

Returned == ret # <<>>
TheBlock == call.page_blocks[call.idx]
TheText == Strip(TheBlock.text)
ThePage == call.page_blocks

VaryingSizes(pbs) ==
    Len(pbs) >= 2 /\ \E i, j \in DOMAIN pbs : pbs[i].font_size # pbs[j].font_size

\* font size >= 1.3 * (sum of the page's font sizes / number of blocks)
AtLeastFactorOfMean(block, pbs) ==
    10 * block.font_size * Len(pbs) >= 13 * SumFontSizes(pbs)
\* font size > 1.3 * mean
AboveFactorOfMean(block, pbs) ==
    10 * block.font_size * Len(pbs) > 13 * SumFontSizes(pbs)

\* C4 as stated, on blocks with a non-blank text: on a page with at least two
\* blocks of differing font size, a block whose font size is at least 1.3
\* times the page mean (the boundary included) is classified 'heading'.
C4_AtLeastFactorIsHeading ==
    (Returned /\ TheText # <<>> /\ VaryingSizes(ThePage)
        /\ AtLeastFactorOfMean(TheBlock, ThePage))
    => ret[1] = "heading"

\* C4 amended: on a page with at least two blocks of differing font size, a
\* block with non-blank text whose font size is strictly greater than 1.3
\* times the page mean is classified 'heading', whatever its text, bold flag
\* or other fields.
C4_AboveFactorIsHeading ==
    (Returned /\ TheText # <<>> /\ VaryingSizes(ThePage)
        /\ AboveFactorOfMean(TheBlock, ThePage))
    => ret[1] = "heading"

\* C4 witness: a non-bold block whose text matches no heading pattern, larger
\* than 1.3 times the mean of a two-block page, was classified 'heading'.
C4_Witness ==
    /\ Returned /\ TheText # <<>> /\ VaryingSizes(ThePage)
    /\ AboveFactorOfMean(TheBlock, ThePage)
    /\ ~TheBlock.is_bold /\ ~HeadingPatterns(TheText)
    /\ ret[1] = "heading"

\* The heading rules as the specification states them: the size rule, the
\* bold rule, a chapter/section keyword followed by a number, a number, a dot
\* and a CAPITAL letter, or a text of UPPER-CASE letters and spaces only.
StatedHeadingRule(block, text, pbs) ==
    \/ SizeRule(block, pbs)
    \/ BoldRule(block, text)
    \/ KeywordPattern(text, TRUE)
    \/ NumberedPattern(text, FALSE)
    \/ UpperPattern(text, FALSE)

\* The list-pattern strings C5 names: a number followed by "." or ")", a
\* bullet glyph, or a lower-case letter followed by "." or ")", then
\* whitespace.
StatedListString(text) ==
    ListPattern3(text) \/ ListPattern2(text) \/ ListPattern4(text)

\* C5: a block whose text is a list-pattern string and that satisfies none of
\* the heading rules is classified 'list'.
C5_ListStringIsList ==
    (Returned /\ StatedListString(TheText)
        /\ ~StatedHeadingRule(TheBlock, TheText, ThePage))
    => ret[1] = "list"

\* C6: detect_block_type returns 'heading' only if one of the three heading
\* rules holds (the all-uppercase rule applying only to text that is entirely
\* upper-case letters and spaces).
C6_HeadingOnlyByRule ==
    (Returned /\ ret[1] = "heading") => StatedHeadingRule(TheBlock, TheText, ThePage)

\* The decision order C7 states: blank text is 'paragraph'; otherwise the
\* first of heading rule, list pattern, code keyword within the first 50
\* characters decides; otherwise 'paragraph'.
StatedType(block, pbs) ==
    LET text == Strip(block.text)
    IN  IF text = <<>> THEN "paragraph"
        ELSE IF StatedHeadingRule(block, text, pbs) THEN "heading"
        ELSE IF ListPatterns(text) THEN "list"
        ELSE IF \E ind \in code_indicators :
                   \E i \in 0..(CodeWindow - Len(ind)) :
                       i + Len(ind) <= Len(text) /\ SubSeq(text, i + 1, i + Len(ind)) = ind
             THEN "code"
        ELSE "paragraph"

\* C7: the result is the type the stated decision order gives.
C7_DecisionOrder ==
    Returned => ret[1] = StatedType(TheBlock, ThePage)

-----------------------------------------------------------------------------
(* SpecLayout: group_blocks_by_layout applied to a block list *)

MaxLayoutBlocks == 3
MaxLayoutPage == 2

\* <<y0, y1>> of a block.  Gaps between them: 20 (joined), 25 and 30 and 60
\* (split), -5 and -15 (overlapping, joined), -40 and -80 (the next block
\* lies above the previous one, as in a second column).
LayoutBoxes == { <<0, 10>>, <<30, 40>>, <<35, 45>>, <<70, 80>> }

LayoutBlocks ==
    { TextBlock(<<"x", "1">>, box[1], box[2], 12, "F1", FALSE, FALSE, "paragraph", pg) :
        box \in LayoutBoxes, pg \in 1..MaxLayoutPage }

\* page_num is non-decreasing along the list, as extract_text_blocks builds it
NonDecreasingPages(bs) ==
    \A i \in 1..(Len(bs) - 1) : bs[i].page_num <= bs[i + 1].page_num

\* The lists of up to n blocks of S with non-decreasing page_num
RECURSIVE PageOrderedLists(_, _)
PageOrderedLists(S, n) ==
    IF n = 0 THEN {<<>>}
    ELSE LET shorter == PageOrderedLists(S, n - 1)
             longest == {r \in shorter : Len(r) = n - 1}
         IN  shorter \cup
             { Append(qe[1], qe[2]) :
                 qe \in { x \in longest \X S :
                            x[1] = <<>> \/ x[1][Len(x[1])].page_num <= x[2].page_num } }

LayoutInit ==
    /\ AppsIdle
    /\ call \in { [fn |-> "group_blocks_by_layout", blocks |-> bs] :
                    bs \in PageOrderedLists(LayoutBlocks, MaxLayoutBlocks) }
    /\ ret = <<>>
    /\ StatsIdle /\ ExtractIdle

Group ==
    /\ ret = <<>>
    /\ ret' = <<group_blocks_by_layout(call.blocks)>>
    /\ UNCHANGED <<varsApps, call, stats, varsExtract, varsConvert>>

SpecLayout == LayoutInit /\ [][Group]_vars

-----------------------------------------------------------------------------
(* Claims about group_blocks_by_layout, checked under SpecLayout *)

\* The index of the group that holds position i of the concatenated groups,
\* 0 when there is no such position.
RECURSIVE GroupIndexOf(_, _)
GroupIndexOf(groups, i) ==
    IF groups = <<>> THEN 0
    ELSE IF i <= Len(groups[1]) THEN 1
    ELSE LET rest == GroupIndexOf(Tail(groups), i - Len(groups[1]))
         IN  IF rest = 0 THEN 0 ELSE 1 + rest

Joined(groups, i) ==
    GroupIndexOf(groups, i) # 0 /\ GroupIndexOf(groups, i) = GroupIndexOf(groups, i - 1)
StartsNewGroup(groups, i) ==
    GroupIndexOf(groups, i - 1) # 0 /\ GroupIndexOf(groups, i) = GroupIndexOf(groups, i - 1) + 1

\* C1 as stated: consecutive blocks prev, curr are in the same group when
\* they are on the same page and the gap curr.y0 - prev.y1 is below 25, and
\* curr starts a new group when the gap is 25 or more or the pages differ.
C1_SignedGapDecides ==
    Returned =>
        \A i \in 2..Len(call.blocks) :
            LET prev == call.blocks[i - 1]
                curr == call.blocks[i]
                gap == curr.y0 - prev.y1
            IN  /\ (curr.page_num = prev.page_num /\ gap < GapThreshold)
                      => Joined(ret[1], i)
                /\ (curr.page_num # prev.page_num \/ gap >= GapThreshold)
                      => StartsNewGroup(ret[1], i)

\* C1 amended: consecutive blocks prev, curr are in the same group when they
\* are on the same page and the absolute value of curr.y0 - prev.y1 is below
\* 25, and curr starts a new group when that absolute value is 25 or more
\* (the gap is >= 25 or <= -25) or the pages differ.
C1_AbsoluteGapDecides ==
    Returned =>
        \A i \in 2..Len(call.blocks) :
            LET prev == call.blocks[i - 1]
                curr == call.blocks[i]
                gap == curr.y0 - prev.y1
            IN  /\ (curr.page_num = prev.page_num /\ gap < GapThreshold /\ gap > 0 - GapThreshold)
                      => Joined(ret[1], i)
                /\ (curr.page_num # prev.page_num \/ gap >= GapThreshold
                        \/ gap <= 0 - GapThreshold)
                      => StartsNewGroup(ret[1], i)

\* C1 witness: a list where one pair on a page was joined at a gap of 20 and
\* another pair on the same page was split at a gap of -25 or less.
C1_Witness ==
    /\ Returned
    /\ \E i \in 2..Len(call.blocks) :
          /\ call.blocks[i].page_num = call.blocks[i - 1].page_num
          /\ call.blocks[i].y0 - call.blocks[i - 1].y1 = 20
          /\ Joined(ret[1], i)
    /\ \E i \in 2..Len(call.blocks) :
          /\ call.blocks[i].page_num = call.blocks[i - 1].page_num
          /\ call.blocks[i].y0 - call.blocks[i - 1].y1 <= 0 - GapThreshold
          /\ StartsNewGroup(ret[1], i)

\* C2: for a non-empty block list the groups are an order-preserving
\* partition: every group is non-empty, all blocks of a group have the same
\* page_num, and the groups concatenated in order are the input list.
C2_GroupsPartitionInput ==
    (Returned /\ call.blocks # <<>>) =>
        /\ \A g \in DOMAIN ret[1] : ret[1][g] # <<>>
        /\ \A g \in DOMAIN ret[1] : \A i, j \in DOMAIN ret[1][g] :
               ret[1][g][i].page_num = ret[1][g][j].page_num
        /\ Flatten(ret[1]) = call.blocks

\* C2 witness: the list was split into at least two groups, one of them with
\* two blocks, at a change of page where the vertical gap alone would join.
C2_Witness ==
    /\ Returned
    /\ Len(ret[1]) >= 2
    /\ \E g \in DOMAIN ret[1] : Len(ret[1][g]) >= 2
    /\ \E i \in 2..Len(call.blocks) :
          /\ call.blocks[i].page_num # call.blocks[i - 1].page_num
          /\ Abs(call.blocks[i].y0 - call.blocks[i - 1].y1) < GapThreshold
          /\ StartsNewGroup(ret[1], i)

-----------------------------------------------------------------------------
(* SpecRender: convert_to_markdown applied to a block list *)

MaxRenderBlocks == 3
MaxRenderPage == 2

RenderTexts == { <<>>, <<"x", "1">> }
BlockTypes == {"paragraph", "heading", "list", "code"}

RenderBlocks ==
    { TextBlock(t, 0, 10, 12, "F1", FALSE, FALSE, ty, pg) :
        t \in RenderTexts, ty \in BlockTypes, pg \in 1..MaxRenderPage }

RenderSpecInit ==
    /\ AppsIdle
    /\ call \in { [fn |-> "convert_to_markdown", blocks |-> bs] :
                    bs \in PageOrderedLists(RenderBlocks, MaxRenderBlocks) }
    /\ ret = <<>>
    /\ stats = ZeroStats
    /\ ExtractIdle

Render ==
    /\ ret = <<>>
    /\ LET r == convert_to_markdown(call.blocks)
       IN  /\ ret' = <<r>>
           /\ stats' = [stats EXCEPT !.restored_texts = @ + r.restored]
    /\ UNCHANGED <<varsApps, call, varsExtract, varsConvert>>

SpecRender == RenderSpecInit /\ [][Render]_vars

-----------------------------------------------------------------------------
(* Claims about convert_to_markdown, checked under SpecRender *)

IsPageBreak(line) == \E pg \in 1..(MaxRenderPage + 1) : line = PageBreak(pg)

\* The positions in the input of the blocks that were emitted
EmittedBlocks(r) == { r.src[k].blk : k \in {n \in DOMAIN r.src : r.src[n].kind = "block"} }

\* C3: for a block list with non-decreasing page numbers the output holds
\* exactly one page-break marker per page transition (the number of distinct
\* pages with emitted blocks, minus one); each marker comes after all output
\* of earlier pages and immediately before the first emitted block of the new
\* page; no marker precedes the first emitted block of the document.
C3_OneMarkerPerPageTransition ==
    (Returned /\ NonDecreasingPages(call.blocks)) =>
        LET r == ret[1]
            bs == call.blocks
            lines == r.markdown_lines
            markers == {k \in DOMAIN lines : IsPageBreak(lines[k])}
            pages == {bs[i].page_num : i \in EmittedBlocks(r)}
        IN  /\ Len(r.src) = Len(lines)
            /\ r.markdown = Flatten(lines)
            /\ \A i \in DOMAIN bs : Strip(bs[i].text) # <<>> => i \in EmittedBlocks(r)
            /\ Cardinality(markers) = (IF pages = {} THEN 0 ELSE Cardinality(pages) - 1)
            /\ lines # <<>> => ~IsPageBreak(lines[1])
            /\ \A k \in markers :
                  /\ k < Len(lines)
                  /\ ~IsPageBreak(lines[k + 1])
                  /\ LET i == r.src[k + 1].blk
                     IN  /\ lines[k] = PageBreak(bs[i].page_num)
                         /\ \A j \in EmittedBlocks(r) :
                               bs[j].page_num = bs[i].page_num => i <= j
                         /\ \A n \in 1..(k - 1) :
                               bs[r.src[n].blk].page_num < bs[i].page_num

\* C3 witness: a block of page 1 was emitted, the first block of page 2 had
\* an empty text and was not emitted, and the output holds exactly one
\* marker, immediately before the output of the second block of page 2.
C3_Witness ==
    /\ Returned
    /\ LET r == ret[1]
           bs == call.blocks
       IN  /\ Len(bs) = 3
           /\ bs[1].page_num = 1 /\ bs[2].page_num = 2 /\ bs[3].page_num = 2
           /\ bs[2].text = <<>>
           /\ Len(r.markdown_lines) = 3
           /\ ~IsPageBreak(r.markdown_lines[1])
           /\ r.markdown_lines[2] = PageBreak(2)
           /\ ~IsPageBreak(r.markdown_lines[3])
           /\ r.src[1].blk = 1 /\ r.src[2].blk = 3 /\ r.src[3].blk = 3

-----------------------------------------------------------------------------
(* Claims about extract_text_blocks, checked under SpecExtract *)

\* C8: when extract_text_blocks has returned, every block of the returned
\* list had its block_type assigned by the classifier exactly once, with the
\* blocks of its own page as context, whether or not its page raised.
C8_ClassifiedExactlyOnce ==
    pc = "done" =>
        \A j \in DOMAIN blocks : cls_log[j] = << {blocks[j].page_num} >>

\* C9, on documents none of whose pages raised: every block of the returned
\* list has a non-empty text.
C9_TextNonEmpty ==
    (pc = "done" /\ stats.errors = 0) => \A j \in DOMAIN blocks : blocks[j].text # <<>>

\* C10: in the returned list page_num is 1-based (between 1 and the number of
\* pages) and non-decreasing, every block carries the number of the page that
\* supplied it, and the blocks of one page are in the order the page source
\* emitted them.
C10_PagesAscendingInSourceOrder ==
    pc = "done" =>
        /\ \A j \in DOMAIN blocks :
              /\ blocks[j].page_num >= 1 /\ blocks[j].page_num <= total_pages
              /\ blocks[j].page_num = origin[j][1]
        /\ \A j, k \in DOMAIN blocks :
              j < k => /\ blocks[j].page_num <= blocks[k].page_num
                       /\ (blocks[j].page_num = blocks[k].page_num
                              => origin[j][2] < origin[k][2])

\* C10 witness: a page raised and was skipped, and the returned list holds
\* blocks of two pages, two of them from the same page.
C10_Witness ==
    /\ pc = "done"
    /\ stats.errors >= 1
    /\ \E j, k \in DOMAIN blocks : blocks[j].page_num # blocks[k].page_num
    /\ \E j, k \in DOMAIN blocks : j < k /\ blocks[j].page_num = blocks[k].page_num

-----------------------------------------------------------------------------
(* convert *)

PdfSuffix == <<".", "p", "d", "f">>

\* str.endswith
EndsWith(s, suffix) ==
    /\ Len(s) >= Len(suffix)
    /\ SubSeq(s, Len(s) - Len(suffix) + 1, Len(s)) = suffix

\* IsPdfPath with the extension test left out
IsPdfPath_Always(pdf_path) == TRUE

\* pdf_path.lower().endswith('.pdf')
IsPdfPath(pdf_path) == EndsWith(LowerText(pdf_path), PdfSuffix)

\* IsEmptyList that never holds
IsEmptyList_Never(bs) == FALSE

\* IsEmptyList that always holds
IsEmptyList_Always(bs) == TRUE

\* "not blocks"
IsEmptyList(bs) == bs = <<>>

\* "if doc:" in the finally clause.  doc is <<>> for None and <<d>> for a
\* Document; a Document has __len__ (its page count) and no __bool__, so its
\* truth value is len(doc) > 0.
DocTruthy(doc) == doc # <<>> /\ doc[1].pages > 0

\* The errors convert raises, by the statement that raises them:
\*   "NotFound"       FileNotFoundError, line 554
\*   "InvalidFormat"  ValueError, line 565
\*   "OpenError"      whatever fitz.open raises, line 568
\*   "EmptyDocument"  ValueError, line 571
\*   "NoText"         ValueError, line 579
\*   "WriteError"     OSError of mkdir, open or write, lines 605-614
\* and "None" for a normal return.
ConvertErrors ==
    {"NotFound", "InvalidFormat", "OpenError", "EmptyDocument", "NoText", "WriteError"}

\* Bounds of the sequences of convert calls
MaxCalls == 2

\* The paths convert is called with
Paths ==
    { <<"a", ".", "p", "d", "f">>, <<"A", ".", "P", "D", "F">>,
      <<"a", ".", "t", "x", "t">>, <<"p", "d", "f">> }

\* The frame of convert between two calls.  open_handles counts the documents
\* opened by fitz.open and not closed; calls counts the calls made.
IdleFrame ==
    [pc |-> "idle", exists |-> FALSE, doc |-> <<>>, exc |-> "None",
     opened |-> FALSE, written |-> FALSE, restored |-> 0,
     open_handles |-> 0, calls |-> 0]

\* A converter after __init__ (which calls reset_stats), no call made yet.
ConvertInit ==
    /\ AppsIdle
    /\ conv = IdleFrame
    /\ stats = ZeroStats
    /\ call = NoValue /\ ret = <<>>
    /\ pc = "idle" /\ total_pages = 0 /\ page_num = 0 /\ src_idx = 0
    /\ page_blocks = <<>> /\ blocks = <<>> /\ origin = <<>> /\ cls_log = <<>>
    /\ raised = {}

\* convert(pdf_path) is called: a new frame; the existence test of line 553
\* raises FileNotFoundError, or reset_stats runs and doc = None.
ConvertCall ==
    /\ conv.pc = "idle" /\ conv.calls < MaxCalls
    /\ \E pdf_path \in Paths, exists \in BOOLEAN :
          LET frame == [IdleFrame EXCEPT !.exists = exists,
                                         !.open_handles = conv.open_handles,
                                         !.calls = conv.calls + 1]
          IN  /\ call' = [fn |-> "convert", pdf_path |-> pdf_path]
              /\ IF ~exists
                 THEN /\ conv' = [frame EXCEPT !.exc = "NotFound"]
                      /\ ret' = <<[exc |-> "NotFound"]>>
                      /\ UNCHANGED stats
                 ELSE /\ conv' = [frame EXCEPT !.pc = "validate"]
                      /\ ret' = <<>>
                      /\ stats' = ZeroStats
    /\ pc' = "idle" /\ total_pages' = 0 /\ page_num' = 0 /\ src_idx' = 0
    /\ page_blocks' = <<>> /\ blocks' = <<>> /\ origin' = <<>> /\ cls_log' = <<>>
    /\ raised' = {}
    /\ UNCHANGED varsApps

\* if not pdf_path.lower().endswith('.pdf'): raise ValueError
ConvertValidate ==
    /\ conv.pc = "validate"
    /\ conv' = IF ~IsPdfPath(call.pdf_path)
               THEN [conv EXCEPT !.exc = "InvalidFormat", !.pc = "finally"]
               ELSE [conv EXCEPT !.pc = "open"]
    /\ UNCHANGED <<varsApps, call, ret, stats, varsExtract, raised>>

\* doc = fitz.open(pdf_path): the library raises, or a document of some
\* number of pages is open.
ConvertOpen ==
    /\ conv.pc = "open"
    /\ \/ conv' = [conv EXCEPT !.exc = "OpenError", !.pc = "finally"]
       \/ \E n \in 0..MaxPages :
             conv' = [conv EXCEPT !.doc = <<[pages |-> n]>>,
                                  !.opened = TRUE,
                                  !.open_handles = @ + 1,
                                  !.pc = "pages"]
    /\ UNCHANGED <<varsApps, call, ret, stats, varsExtract, raised>>

\* if len(doc) == 0: raise ValueError; otherwise extract_text_blocks(doc)
\* is entered.
ConvertCheckPages ==
    /\ conv.pc = "pages"
    /\ IF conv.doc[1].pages = 0
       THEN /\ conv' = [conv EXCEPT !.exc = "EmptyDocument", !.pc = "finally"]
            /\ UNCHANGED <<pc, total_pages>>
       ELSE /\ conv' = [conv EXCEPT !.pc = "extract"]
            /\ pc' = "extract"
            /\ total_pages' = conv.doc[1].pages
    /\ UNCHANGED <<varsApps, call, ret, stats, page_num, src_idx, page_blocks, blocks,
                   origin, cls_log, raised>>

\* extract_text_blocks returned: if not blocks: raise ValueError; otherwise
\* convert_to_markdown(blocks) and post_process_markdown run.  The text of
\* the Markdown is not part of the state; the increments of
\* stats['restored_texts'] made while rendering are.
ConvertRender ==
    /\ conv.pc = "extract" /\ pc = "done"
    /\ IF IsEmptyList(blocks)
       THEN /\ conv' = [conv EXCEPT !.exc = "NoText", !.pc = "finally"]
            /\ UNCHANGED stats
       ELSE LET r == convert_to_markdown(blocks)
            IN  /\ conv' = [conv EXCEPT !.restored = r.restored, !.pc = "write"]
                /\ stats' = [stats EXCEPT !.restored_texts = @ + r.restored]
    /\ UNCHANGED <<varsApps, call, ret, varsExtract, raised>>

\* The output path is made, its directory created and the file written: an
\* OSError is raised, or the file is written and the return value is built.
ConvertWrite ==
    /\ conv.pc = "write"
    /\ \/ conv' = [conv EXCEPT !.exc = "WriteError", !.pc = "finally"]
       \/ conv' = [conv EXCEPT !.written = TRUE, !.pc = "finally"]
    /\ UNCHANGED <<varsApps, call, ret, stats, varsExtract, raised>>

\* finally: if doc: doc.close(); then the exception propagates or the pair
\* (markdown, stats) is returned.
ConvertFinally ==
    /\ conv.pc = "finally"
    /\ conv' = [conv EXCEPT !.pc = "idle",
                            !.open_handles = IF DocTruthy(conv.doc) THEN @ - 1 ELSE @]
    /\ ret' = IF conv.exc = "None"
              THEN <<[exc |-> "None",
                      pages |-> conv.doc[1].pages,
                      blocks |-> stats.total_blocks,
                      restored_texts |-> stats.restored_texts,
                      errors |-> stats.errors]>>
              ELSE <<[exc |-> conv.exc]>>
    /\ UNCHANGED <<varsApps, call, stats, varsExtract, raised>>

ConvertNext ==
    \/ ConvertCall \/ ConvertValidate \/ ConvertOpen \/ ConvertCheckPages
    \/ ExtractBlock \/ PageRaises \/ ClassifyPage \/ FinishExtract
    \/ ConvertRender \/ ConvertWrite \/ ConvertFinally

SpecConvert == ConvertInit /\ [][ConvertNext]_vars

-----------------------------------------------------------------------------
(* Claims about convert, checked under SpecConvert *)

\* A call of convert was made; call and conv describe the latest one.
Called == conv.calls > 0

\* The path does not end in ".pdf", compared without regard to case.
LacksPdfExtension(path) ==
    \/ Len(path) < Len(PdfSuffix)
    \/ LowerText(SubSeq(path, Len(path) - Len(PdfSuffix) + 1, Len(path))) # PdfSuffix

\* Nothing of the document was touched by the latest call: fitz.open was not
\* called and extract_text_blocks was not entered.
NothingOpenedOrExtracted ==
    /\ ~conv.opened /\ conv.doc = <<>>
    /\ pc = "idle" /\ page_num = 0 /\ blocks = <<>>

\* C11 as stated: a call of convert on any path without the .pdf extension
\* never opens the document, never extracts, and fails with InvalidFormat.
C11_AnyPathWithoutExtensionIsInvalidFormat ==
    (Called /\ LacksPdfExtension(call.pdf_path)) =>
        /\ NothingOpenedOrExtracted
        /\ (Returned => ret[1].exc = "InvalidFormat")

\* C11: a call of convert on a path that exists and has no .pdf extension
\* never opens the document, never extracts, and fails with InvalidFormat;
\* on a path that does not exist it fails with NotFound, the document
\* untouched as well.
C11_ExistingPathWithoutExtensionIsInvalidFormat ==
    (Called /\ LacksPdfExtension(call.pdf_path)) =>
        /\ NothingOpenedOrExtracted
        /\ (Returned =>
              ret[1].exc = IF conv.exists THEN "InvalidFormat" ELSE "NotFound")

\* C11 witness: convert on the existing path "a.txt" has failed with
\* InvalidFormat.
C11_Witness ==
    /\ Called /\ Returned
    /\ conv.exists
    /\ call.pdf_path = <<"a", ".", "t", "x", "t">>
    /\ ret[1].exc = "InvalidFormat"
    /\ ~conv.opened

\* C12: when the document has at least one page, no page raised and no
\* block resulted, convert has attempted the extraction of every page, fails
\* with NoText, the errors counter is 0 and no output file was written.
C12_NoBlocksFailsNoText ==
    (Called /\ Returned /\ conv.doc # <<>> /\ conv.doc[1].pages >= 1
        /\ raised = {} /\ blocks = <<>>) =>
        /\ pc = "done" /\ page_num = total_pages /\ total_pages = conv.doc[1].pages
        /\ ret[1].exc = "NoText"
        /\ stats.errors = 0
        /\ ~conv.written

\* C12 witness: a document of two pages, both extracted without raising and
\* without a block, has failed with NoText.
C12_Witness ==
    /\ Called /\ Returned
    /\ conv.doc # <<>> /\ conv.doc[1].pages = 2
    /\ pc = "done" /\ page_num = 2
    /\ raised = {} /\ blocks = <<>>
    /\ ret[1].exc = "NoText" /\ stats.errors = 0 /\ ~conv.written

\* When extract_text_blocks has ended, every page was gone through, the
\* errors counter is the number of pages that raised and total_blocks is the
\* length of the returned list.
ExtractionTolerant ==
    pc = "done" =>
        /\ page_num = total_pages
        /\ raised \subseteq 1..total_pages
        /\ stats.errors = Cardinality(raised)
        /\ stats.total_blocks = Len(blocks)

\* C13 as stated: ExtractionTolerant, and convert succeeds whenever at least
\* one block was extracted.
C13_SucceedsWithAnyBlock ==
    /\ ExtractionTolerant
    /\ (Called /\ Returned /\ blocks # <<>>) => ret[1].exc = "None"

\* C13: ExtractionTolerant, and whenever at least one block was extracted
\* convert raises none of its own errors: it goes on to write the output and
\* succeeds unless writing the output fails; when it succeeds the returned
\* counters are those of the extraction.
C13_SucceedsWithAnyBlockUnlessWriteFails ==
    /\ ExtractionTolerant
    /\ (Called /\ Returned /\ blocks # <<>>) =>
          /\ ret[1].exc \in {"None", "WriteError"}
          /\ (ret[1].exc = "None" <=> conv.written)
          /\ (ret[1].exc = "None" =>
                 /\ ret[1].errors = Cardinality(raised)
                 /\ ret[1].blocks = Len(blocks))

\* C13 witness: the first page raised, the second page was processed and
\* gave a block, and convert returned normally with errors = 1.
C13_Witness ==
    /\ Called /\ Returned
    /\ raised = {1} /\ total_pages = 2
    /\ \E j \in DOMAIN blocks : blocks[j].page_num = 2
    /\ ret[1].exc = "None" /\ ret[1].errors = 1 /\ ret[1].blocks = Len(blocks)

\* C14: after every call of convert, however it ended, the counters are
\* those of that call: errors is the number of its pages that raised,
\* total_blocks the number of blocks it extracted, restored_texts the number
\* of restorations of its rendering (all 0 for a call that extracted nothing).
C14_CountersReflectOnlyThisCall ==
    (Called /\ Returned) =>
        /\ stats.errors = Cardinality(raised)
        /\ stats.total_blocks = Len(blocks)
        /\ stats.restored_texts = conv.restored

\* C15: when convert has returned or raised, every document it opened is
\* closed.
C15_EveryHandleClosed ==
    (Called /\ conv.pc = "idle") => conv.open_handles = 0

-----------------------------------------------------------------------------
(* SpecRestore: restore_deformed_text applied to a text and a context *)

MaxContext == 2

\* Texts to restore: empty, one character, a two-character word, a repeated
\* digit, a number, two blanks between words, two different digits, the same
\* word twice, upper case, two words under different rules, blanks around.
RestoreTexts ==
    { <<>>,
      <<"x">>,
      <<"h", "1">>,
      <<"b", "0", "0", "k">>,
      <<"1", "0", "0">>,
      <<"a", " ", " ", "c", "0", "d", "e">>,
      <<"c", "0", "d", "5">>,
      <<"5", "u", "n", " ", "5", "u", "n">>,
      <<"B", "0", "B">>,
      <<"8", "i", "g", " ", "t", "1", "n">>,
      <<" ", "b", "0", "0", "k", " ">> }

\* Context texts: empty, words in mixed case, words for the rules, no letter
\* word at all, letter words that match nothing.
RestoreContextTexts ==
    { <<>>,
      <<"B", "o", "o", "k", " ", "h", "i">>,
      <<"i", "o", "o", " ", "c", "o", "d", "e", " ", "s", "u", "n">>,
      <<"b", "o", "b", " ", "b", "i", "g", " ", "t", "i", "n">>,
      <<"1", "2", "3", " ", "c", "0", "d", "e">>,
      <<"c", "o", "d", "s", " ", "w", "O", "r", "d", "s">> }

RestoreCalls ==
    { [fn |-> "restore_deformed_text", text |-> t, context |-> c] :
        t \in RestoreTexts, c \in SeqsUpTo(RestoreContextTexts, MaxContext) }

RestoreInit ==
    /\ AppsIdle
    /\ call \in RestoreCalls
    /\ ret = <<>>
    /\ StatsIdle /\ ExtractIdle

\* text = self.restore_deformed_text(block.text, context)
Restore ==
    /\ ret = <<>>
    /\ LET r == restore_deformed_text(call.text, call.context)
       IN  /\ ret' = <<r>>
           /\ stats' = [stats EXCEPT !.restored_texts = @ + r.restored]
    /\ UNCHANGED <<varsApps, call, varsExtract, varsConvert>>

SpecRestore == RestoreInit /\ [][Restore]_vars

-----------------------------------------------------------------------------
(* Claims about restore_deformed_text, checked under SpecRestore *)

\* The whitespace-delimited words of the argument and of the result
TheWords == SplitWords(call.text, <<>>)
OutWords == SplitWords(ret[1].text, <<>>)

\* The vocabulary of the call: the lower-cased letter words of the context
Vocabulary == context_words(call.context)

\* The word contains a digit, is longer than 2 characters and is not purely
\* numeric.
StatedCandidate(word) ==
    /\ \E i \in DOMAIN word : word[i] \in DigitChars
    /\ Len(word) > 2
    /\ \E i \in DOMAIN word : word[i] \notin DigitChars

\* The word with rule k (1: 0->O, 2: 1->I, 3: 5->S, 4: 8->B) applied
Substituted(word, k) == ReplaceChar(word, fixes[k][1], fixes[k][2])

\* Rule k is accepted for the word: the result, lower-cased, is in the
\* vocabulary.
Accepted(word, k) == LowerText(Substituted(word, k)) \in Vocabulary

\* C16: restore_deformed_text leaves the number of words as it is and
\* changes a word only when the vocabulary is non-empty and the word put in
\* its place, lower-cased, is in the vocabulary; with an empty vocabulary, in
\* particular with an empty context list, the text is returned unchanged and
\* the restored-text counter is not incremented.
C16_RestoresOnlyFromVocabulary ==
    Returned =>
        /\ Len(OutWords) = Len(TheWords)
        /\ \A i \in DOMAIN TheWords :
              OutWords[i] # TheWords[i] =>
                  /\ Vocabulary # {}
                  /\ LowerText(OutWords[i]) \in Vocabulary
        /\ (ret[1].restored > 0 => Vocabulary # {})
        /\ ((call.context = <<>> \/ Vocabulary = {}) =>
               /\ ret[1].text = call.text
               /\ ret[1].restored = 0
               /\ stats.restored_texts = 0)

\* C16 witness: with a vocabulary that holds "book", the word "b00k" was
\* changed into a word that, lower-cased, is in the vocabulary.
C16_Witness ==
    /\ Returned
    /\ call.text = <<"b", "0", "0", "k">>
    /\ <<"b", "o", "o", "k">> \in Vocabulary
    /\ ret[1].text = <<"b", "O", "O", "k">>
    /\ ret[1].restored = 1

\* C17: with a non-empty vocabulary, every word that is a candidate (holds a
\* digit, longer than 2 characters, not purely numeric) and for which a rule
\* is accepted is replaced by the result of the first accepted rule in the
\* order 0->O, 1->I, 5->S, 8->B; every other word is output unchanged; and
\* the restored-text counter grows by exactly the number of words replaced.
C17_FirstAcceptedRuleApplied ==
    (Returned /\ Vocabulary # {}) =>
        /\ Len(OutWords) = Len(TheWords)
        /\ \A i \in DOMAIN TheWords :
              LET w == TheWords[i]
                  ok == { k \in DOMAIN fixes : StatedCandidate(w) /\ Accepted(w, k) }
              IN  IF ok = {} THEN OutWords[i] = w
                  ELSE \E k \in ok : /\ \A h \in ok : k <= h
                                     /\ OutWords[i] = Substituted(w, k)
        /\ ret[1].restored =
              Cardinality({ i \in DOMAIN TheWords :
                              /\ StatedCandidate(TheWords[i])
                              /\ \E k \in DOMAIN fixes : Accepted(TheWords[i], k) })
        /\ stats.restored_texts = ret[1].restored

\* C17 witness: "8ig t1n" with "big" and "tin" in the vocabulary: two words
\* replaced, by the rules 8->B and 1->I, and the counter is 2.
C17_Witness ==
    /\ Returned
    /\ call.text = <<"8", "i", "g", " ", "t", "1", "n">>
    /\ ret[1].text = <<"B", "i", "g", " ", "t", "I", "n">>
    /\ ret[1].restored = 2
    /\ stats.restored_texts = 2

-----------------------------------------------------------------------------
(* SpecFormat: convert_to_markdown applied to blocks of every type, font   *)
(* size and emphasis, all on one page                                      *)

MaxFormatBlocks == 2

\* Font sizes around the heading thresholds
FormatFontSizes == {12, 14, 15, 16, 17, 20, 21}

\* List texts: numeric markers, the bullet glyphs "-", "*", bullet and white
\* bullet, a lettered marker, a single character and a blank, a dash without
\* a blank.
ListTexts ==
    { <<"1", ".", " ", "a">>,
      <<"1", "2", ")", " ", "b">>,
      <<"-", " ", "c">>,
      <<"*", " ", "d">>,
      <<"BULLET", " ", "e">>,
      <<"WHITE-BULLET", " ", "f">>,
      <<"a", ")", " ", "g">>,
      <<"x", " ", "y">>,
      <<"-", "z">> }

HeadingText == <<"T", " ", "t">>
ParagraphText == <<"p", " ", "q">>
CodeText == <<"d", "e", "f", " ", "f">>

FormatBlocks ==
    { TextBlock(HeadingText, 0, 10, fs, "F1", FALSE, FALSE, "heading", 1) :
        fs \in FormatFontSizes }
    \cup { TextBlock(t, 0, 10, 12, "F1", FALSE, FALSE, "list", 1) : t \in ListTexts }
    \cup { TextBlock(ParagraphText, 0, 10, 12, "F1", b, i, "paragraph", 1) :
             b \in BOOLEAN, i \in BOOLEAN }
    \cup { TextBlock(CodeText, 0, 10, 12, "F1", FALSE, FALSE, "code", 1),
           TextBlock(<<>>, 0, 10, 12, "F1", FALSE, FALSE, "heading", 1) }

FormatInit ==
    /\ AppsIdle
    /\ call \in { [fn |-> "convert_to_markdown", blocks |-> bs] :
                    bs \in SeqsUpTo(FormatBlocks, MaxFormatBlocks) }
    /\ ret = <<>>
    /\ stats = ZeroStats
    /\ ExtractIdle

\* markdown = self.convert_to_markdown(blocks)
Format ==
    /\ ret = <<>>
    /\ LET r == convert_to_markdown(call.blocks)
       IN  /\ ret' = <<r>>
           /\ stats' = [stats EXCEPT !.restored_texts = @ + r.restored]
    /\ UNCHANGED <<varsApps, call, varsExtract, varsConvert>>

SpecFormat == FormatInit /\ [][Format]_vars

-----------------------------------------------------------------------------
(* Claims about the formatting of blocks, checked under SpecFormat *)

\* The fragments of the output that render a block (not a page break), as
\* indices into markdown_lines, and the block each renders.
BlockFragments == { j \in DOMAIN ret[1].src : ret[1].src[j].kind = "block" }
FragmentBlock(j) == call.blocks[ret[1].src[j].blk]

\* The number of "#" characters a fragment starts with
RECURSIVE LeadingHashes(_)
LeadingHashes(t) ==
    IF t # <<>> /\ t[1] = "#" THEN 1 + LeadingHashes(Tail(t)) ELSE 0

\* The heading level stated for a font size
StatedLevel(font_size) ==
    IF font_size > 20 THEN 1
    ELSE IF font_size > 16 /\ font_size <= 20 THEN 2
    ELSE IF font_size > 14 /\ font_size <= 16 THEN 3
    ELSE 4

\* C18: every heading block is emitted as level "#" characters, a space, the
\* text and a blank line, the level being the stated one; the level is
\* between 1 and 4, and of two headings the one with the larger font never
\* has the larger level.
C18_HeadingLevelByFontSize ==
    Returned =>
        /\ \A j \in BlockFragments :
              LET b == FragmentBlock(j)
                  f == ret[1].markdown_lines[j]
              IN  b.block_type = "heading" =>
                      /\ f = Rep("#", StatedLevel(b.font_size)) \o <<" ">> \o b.text
                               \o <<"\n", "\n">>
                      /\ LeadingHashes(f) \in 1..4
        /\ \A j, k \in BlockFragments :
              LET b == FragmentBlock(j)
                  c == FragmentBlock(k)
              IN  (b.block_type = "heading" /\ c.block_type = "heading"
                      /\ b.font_size <= c.font_size) =>
                      LeadingHashes(ret[1].markdown_lines[j])
                          >= LeadingHashes(ret[1].markdown_lines[k])

\* C18 witness: two headings of font sizes 16 and 17 were emitted, at levels
\* 3 and 2.
C18_Witness ==
    /\ Returned
    /\ Len(call.blocks) = 2
    /\ call.blocks[1].block_type = "heading" /\ call.blocks[1].font_size = 16
    /\ call.blocks[2].block_type = "heading" /\ call.blocks[2].font_size = 17
    /\ ret[1].markdown_lines =
          << <<"#", "#", "#", " ">> \o HeadingText \o <<"\n", "\n">>,
             <<"#", "#", " ">> \o HeadingText \o <<"\n", "\n">> >>

\* The text starts with a numeric marker: digits followed by "." or ")".
StatedNumericMarker(t) ==
    \E d \in 1..(Len(t) - 1) :
        /\ \A i \in 1..d : t[i] \in DigitChars
        /\ t[d + 1] \in {".", ")"}

\* The text is bullet-prefixed: it starts with one of the bullet glyphs of
\* the list patterns.
StatedBulletPrefixed(t) ==
    t # <<>> /\ t[1] \in ({"-", "*"} \cup BulletGlyphs)

\* C19: a list block whose text is a list-pattern string is emitted
\* unchanged (followed by a newline) when the text starts with a numeric
\* marker or is bullet-prefixed, and with the prefix "- " otherwise; so no
\* such block is emitted with two markers or with none.
C19_ListMarkerExactlyOnce ==
    Returned =>
        \A j \in BlockFragments :
            LET b == FragmentBlock(j)
                f == ret[1].markdown_lines[j]
            IN  (b.block_type = "list" /\ ListPatterns(b.text)) =>
                    f = IF StatedNumericMarker(b.text) \/ StatedBulletPrefixed(b.text)
                        THEN b.text \o <<"\n">>
                        ELSE <<"-", " ">> \o b.text \o <<"\n">>

\* The type of the block emitted last before fragment j, "None" when j
\* renders the first emitted block.
PrevEmittedType(j) ==
    LET before == { k \in BlockFragments : k < j }
    IN  IF before = {} THEN "None"
        ELSE FragmentBlock(CHOOSE k \in before : \A h \in before : h <= k).block_type

\* The fragment is the text, possibly wrapped in emphasis marks, preceded by
\* a newline or not, and followed by a blank line.
ParagraphFragment(f, text, leading) ==
    LET body == IF leading THEN Tail(f) ELSE f
    IN  /\ f # <<>>
        /\ (leading <=> f[1] = "\n")
        /\ body # <<>> /\ body[1] # "\n"
        /\ Contains(body, text)
        /\ EndsWith(body, <<"\n", "\n">>)

\* C20 as stated: a paragraph that directly follows a heading or a list is
\* emitted with a leading newline before its text, any other paragraph
\* without one.
C20_NewlineAfterHeadingOrList ==
    Returned =>
        \A j \in BlockFragments :
            LET b == FragmentBlock(j)
            IN  b.block_type = "paragraph" =>
                    ParagraphFragment(ret[1].markdown_lines[j], b.text,
                                      PrevEmittedType(j) \in {"heading", "list"})

\* C20: a paragraph that directly follows a list block is emitted with a
\* leading newline before its text; a paragraph that follows a heading, a
\* paragraph or a code block, or is the first block emitted, without one.
C20_NewlineAfterListOnly ==
    Returned =>
        \A j \in BlockFragments :
            LET b == FragmentBlock(j)
            IN  b.block_type = "paragraph" =>
                    ParagraphFragment(ret[1].markdown_lines[j], b.text,
                                      PrevEmittedType(j) = "list")

\* C20 witness: a list block followed by a paragraph, the paragraph emitted
\* with the leading newline.
C20_Witness ==
    /\ Returned
    /\ Len(call.blocks) = 2
    /\ call.blocks[1].block_type = "list"
    /\ call.blocks[2].block_type = "paragraph"
    /\ ~call.blocks[2].is_bold /\ ~call.blocks[2].is_italic
    /\ Len(ret[1].markdown_lines) = 2
    /\ ret[1].markdown_lines[2] = <<"\n">> \o ParagraphText \o <<"\n", "\n">>

-----------------------------------------------------------------------------
(* SpecScenario: one page of two text blocks taken through extraction,     *)
(* classification, grouping and rendering                                   *)

\* The first block of the page: one span of a short title
ScenarioHeadSpans ==
    { [text |-> t, size |-> sz, font |-> "F1", flags |-> fl] :
        t \in { <<"I","N","V","O","I","C","E">>, <<"B","O","O","K">>,
                <<"I","t","e","m"," ","1">> },
        sz \in {20, 21, 24}, fl \in {0, 16} }

\* The second block of the page: one span of running text
ScenarioBodySpans ==
    { [text |-> t, size |-> 11, font |-> "F2", flags |-> fl] :
        t \in { <<"T","o","t","a","l"," ","d","u","e",":"," ","$","1","0","0">>,
                <<"b","0","0","k">> },
        fl \in {0, 16, 2} }

\* text_dict["blocks"] of the page: the first block at y 0..10, the second
\* starting 20 or 25 units below it.
ScenarioPages ==
    { << [has_lines |-> TRUE, spans |-> <<h>>, y0 |-> 0, y1 |-> 10],
         [has_lines |-> TRUE, spans |-> <<p>>, y0 |-> 10 + gap, y1 |-> 20 + gap] >> :
        h \in ScenarioHeadSpans, p \in ScenarioBodySpans, gap \in {20, 25} }

ScenarioInit ==
    /\ AppsIdle
    /\ call \in { [fn |-> "convert", page |-> pg] : pg \in ScenarioPages }
    /\ ret = <<>>
    /\ stats = ZeroStats
    /\ ExtractIdle

\* blocks = self.extract_text_blocks(doc) for the one-page document
ScenarioExtract ==
    /\ ret = <<>>
    /\ LET made == BuildBlock(call.page[1], 0) \o BuildBlock(call.page[2], 0)
       IN  /\ ret' = <<ClassifyBlocks(made)>>
           /\ stats' = [stats EXCEPT !.total_blocks = Len(made)]
    /\ UNCHANGED <<varsApps, call, varsExtract, varsConvert>>

\* markdown = self.convert_to_markdown(blocks)
ScenarioRender ==
    /\ Len(ret) = 1
    /\ LET r == convert_to_markdown(ret[1])
       IN  /\ ret' = Append(ret, r)
           /\ stats' = [stats EXCEPT !.restored_texts = @ + r.restored]
    /\ UNCHANGED <<varsApps, call, varsExtract, varsConvert>>

SpecScenario == ScenarioInit /\ [][ScenarioExtract \/ ScenarioRender]_vars

-----------------------------------------------------------------------------
(* Claim about the whole pipeline, checked under SpecScenario *)

ScenarioRendered == Len(ret) = 2

\* The page's first block is classified heading with a font size above 20,
\* its second block is classified paragraph and starts 20 units below it.
HeadingThenParagraph ==
    /\ Len(ret[1]) = 2
    /\ ret[1][1].block_type = "heading" /\ ret[1][1].font_size > 20
    /\ ret[1][2].block_type = "paragraph"
    /\ ret[1][2].y0 - ret[1][1].y1 = 20

\* The stated output: "# ", the heading text, a blank line, the paragraph
\* text as the block holds it, the paragraph's closing blank line; no
\* page-break marker among the fragments; one layout group.
StatedScenarioOutput ==
    /\ Len(group_blocks_by_layout(ret[1])) = 1
    /\ ret[2].markdown = <<"#", " ">> \o ret[1][1].text \o <<"\n", "\n">>
                         \o ret[1][2].text \o <<"\n", "\n">>
    /\ \A j \in DOMAIN ret[2].src : ret[2].src[j].kind = "block"

-----------------------------------------------------------------------------
(* sanitize_filename *)

DefaultMaxLength == 100
MinNameLen == 3

\* The characters of the class [<>:"/\\|?*]
IllegalChars == {"<", ">", ":", "\"", "/", "\\", "|", "?", "*"}

\* The fallback name "document"
DocumentName == <<"d", "o", "c", "u", "m", "e", "n", "t">>

\* re.sub(r'^#+\s+', '', s): a leading run of "#" followed by whitespace is
\* dropped together with that whitespace.
StripHeadingMarks(s) ==
    LET hashes == CHOOSE n \in 0..Len(s) :
                     /\ \A i \in 1..n : s[i] = "#"
                     /\ (n = Len(s) \/ s[n + 1] # "#")
        rest == Drop(s, hashes)
    IN  IF hashes > 0 /\ rest # <<>> /\ rest[1] \in SpaceChars THEN LStrip(rest) ELSE s

\* filename[:max_length].rsplit(' ', 1)[0]: the part before the last blank
\* of the first max_length characters, all of them when there is no blank.
CutAtLastWord(s, max_length) ==
    LET head == Take(s, max_length)
        blanks == { i \in DOMAIN head : head[i] = " " }
    IN  IF blanks = {} THEN head
        ELSE SubSeq(head, 1, (CHOOSE i \in blanks : \A j \in blanks : j <= i) - 1)

\* if len(filename) > max_length: filename = filename[:max_length].rsplit(' ', 1)[0]
Truncate(s, max_length) ==
    IF Len(s) > max_length THEN CutAtLastWord(s, max_length) ELSE s

sanitize_filename(filename, max_length) ==
    IF filename = <<>> THEN DocumentName
    ELSE LET f1 == SelectSeq(filename, LAMBDA c : c \notin IllegalChars)
             f2 == StripHeadingMarks(f1)
             f3 == SelectSeq(f2, LAMBDA c : c \notin {"*", "BACKTICK", "_"})
             f4 == JoinWords(SplitWords(f3, <<>>))
             f5 == Truncate(f4, max_length)
         IN  IF f5 = <<>> \/ Len(f5) < MinNameLen THEN DocumentName ELSE f5

-----------------------------------------------------------------------------
(* SpecSanitize: sanitize_filename applied to a name and a maximal length *)

\* The names given: empty, short, of illegal characters only, with markdown
\* syntax, with runs of whitespace, and longer than the maximal length.
SanitizeNames ==
    { <<>>,
      <<"a", "b">>,
      <<"a", "/", "b">>,
      <<"<", ">", ":", "\"", "/", "\\", "|", "?", "*">>,
      <<"#", " ", "T", "i", "t", "l", "e", " ", "o", "n", "e">>,
      <<"#", "#", " ">>,
      <<"#", "x">>,
      <<"*", "*", "B", "o", "l", "d", "*", "*", " ", "_", "n", "a", "m", "e", "_">>,
      <<" ", " ", "s", "p", "a", "c", "e", "d", " ", "\t", " ", "o", "u", "t", "\n", "n", "a", "m", "e", " ">>,
      <<"r", "e", "p", "o", "r", "t", ":", " ", "f", "i", "n", "a", "l", "?">>,
      <<"a", "BACKTICK", "b", "BACKTICK", "c">>,
      <<"_", "_">>,
      <<"o", "n", "e", " ", "t", "w", "o", " ", "t", "h", "r", "e", "e", " ", "f", "o", "u", "r">>,
      <<"a", "b", " ", "c", "d", "e", "f", "g", "h", "i", "j", "k", "l", "m">>,
      <<"a", "b", "c", "d", "e", "f", "g", "h", "i", "j", "k", "l">>,
      <<"a", "*", "b">>,
      <<"x", "|", "y", " ", "z">> }
    \cup { Rep("x", 60) \o <<" ">> \o Rep("y", 60), Rep("x", 120),
           <<"a", "b", " ">> \o Rep("z", 110) }

SanitizeMaxLengths == {5, 8, 10, DefaultMaxLength}

SanitizeInit ==
    /\ AppsIdle
    /\ call \in { [fn |-> "sanitize_filename", filename |-> f, max_length |-> n] :
                    f \in SanitizeNames, n \in SanitizeMaxLengths }
    /\ ret = <<>>
    /\ stats = ZeroStats
    /\ ExtractIdle

Sanitize ==
    /\ ret = <<>>
    /\ ret' = <<sanitize_filename(call.filename, call.max_length)>>
    /\ UNCHANGED <<varsApps, call, stats, varsExtract, varsConvert>>

SpecSanitize == SanitizeInit /\ [][Sanitize]_vars

-----------------------------------------------------------------------------
(* Claim about sanitize_filename, checked under SpecSanitize *)

\* C23: for every name and every max_length the result is non-empty, has at
\* most max_length characters and holds none of < > : " / \ | ? *.
C23_SafeNonEmptyWithinMaxLength ==
    Returned =>
        /\ ret[1] # <<>>
        /\ Len(ret[1]) <= call.max_length
        /\ \A i \in DOMAIN ret[1] : ret[1][i] \notin IllegalChars

-----------------------------------------------------------------------------
(* extract_document_title and the output name of convert *)

MetaMinLen == 3
HeadingMinLen == 5
TitleMaxLen == 200
LineMinLen == 10
TitleBlocks == 50
TitlePages == 2
TitleLines == 5

\* text.split('\n')
RECURSIVE SplitLines(_, _)
SplitLines(s, cur) ==
    IF s = <<>> THEN <<cur>>
    ELSE IF s[1] = "\n" THEN <<cur>> \o SplitLines(Tail(s), <<>>)
         ELSE SplitLines(Tail(s), Append(cur, s[1]))

\* [l.strip() for l in text.split('\n') if l.strip()][:5]
FirstLines(page_text) ==
    LET ls == SplitLines(Strip(page_text), <<>>)
        stripped == [i \in DOMAIN ls |-> Strip(ls[i])]
    IN  Take(SelectSeq(stripped, LAMBDA l : l # <<>>), TitleLines)

\* len(line) > 10 and len(line) < 200 and not re.match(r'^\d+$', line)
\* and not line.lower().startswith('page')
SubstantialLine(line) ==
    /\ Len(line) > LineMinLen /\ Len(line) < TitleMaxLen
    /\ ~(\A i \in DOMAIN line : line[i] \in DigitChars)
    /\ ~StartsWith(LowerText(line), <<"p", "a", "g", "e">>)

\* The first substantial line among the first 5 lines of each of the first
\* 2 pages, as <<line>>; <<>> when there is none.
RECURSIVE FirstSubstantialLine(_)
FirstSubstantialLine(pages) ==
    IF pages = <<>> THEN <<>>
    ELSE LET good == SelectSeq(FirstLines(pages[1]), SubstantialLine)
         IN  IF good # <<>> THEN <<good[1]>> ELSE FirstSubstantialLine(Tail(pages))

\* The loop "for block in blocks[:50]" over bs with the local variable
\* title: <<"return", name>> when a heading yields the name, <<"fall", title>>
\* when the loop ends, title being what the last heading left in it.
RECURSIVE HeadingLoop(_, _)
HeadingLoop(bs, title) ==
    IF bs = <<>> THEN <<"fall", title>>
    ELSE IF bs[1].block_type = "heading" /\ Strip(bs[1].text) # <<>>
         THEN LET t == StripHeadingMarks(Strip(bs[1].text))
              IN  IF t # <<>> /\ Len(t) > HeadingMinLen /\ Len(t) < TitleMaxLen
                  THEN <<"return", sanitize_filename(t, DefaultMaxLength)>>
                  ELSE HeadingLoop(Tail(bs), <<t>>)
         ELSE HeadingLoop(Tail(bs), title)

\* if not title: title is <<>> for None, <<t>> for the string t
TitleUnset(title) == title = <<>> \/ title[1] = <<>>

\* extract_document_title(doc, blocks): meta is doc.metadata['title'] (<<>>
\* when absent or empty), pages the text of the pages of doc.  Returns
\* <<name>>, or <<>> for None.
extract_document_title(meta, bs, pages) ==
    LET title0 == IF meta # <<>> THEN <<Strip(meta)>> ELSE <<>>
    IN  IF title0 # <<>> /\ title0[1] # <<>> /\ Len(title0[1]) > MetaMinLen
        THEN <<sanitize_filename(title0[1], DefaultMaxLength)>>
        ELSE LET h == IF bs # <<>> THEN HeadingLoop(Take(bs, TitleBlocks), title0)
                                   ELSE <<"fall", title0>>
             IN  IF h[1] = "return" THEN <<h[2]>>
                 ELSE IF TitleUnset(h[2])
                      THEN LET l == FirstSubstantialLine(Take(pages, TitlePages))
                           IN  IF l # <<>>
                               THEN <<sanitize_filename(l[1], DefaultMaxLength)>>
                               ELSE <<>>
                      ELSE <<>>

\* pdf_name of convert, lines 590-597: doc_title if it is set, else the stem
OutputName(meta, bs, pages, stem) ==
    LET doc_title == extract_document_title(meta, bs, pages)
    IN  IF doc_title # <<>> /\ doc_title[1] # <<>> THEN doc_title[1] ELSE stem

-----------------------------------------------------------------------------
(* SpecTitle: the output name of a convert call without an output path *)

TitleMetas ==
    { <<>>,
      <<"D", "o", "c">>,
      <<" ", " ", " ">>,
      <<"A", "n", "n", "u", "a", "l", " ", "R", "e", "p", "o", "r", "t">>,
      <<"*", "*", "*", "*">> }

TitleHeadings ==
    { TextBlock(t, 0, 10, 16, "F1", FALSE, FALSE, ty, 1) :
        t \in { <<"I", "n", "t", "r", "o">>,
                <<"C", "h", "a", "p", "t", "e", "r", " ", "O", "n", "e">> },
        ty \in {"heading", "paragraph"} }

\* The text of the pages of the document, page by page
TitlePageTexts ==
    { <<>>,
      <<<<"1", "2", "\n", "P", "a", "g", "e", " ", "1", " ", "o", "f", " ", "2", "\n", "A", " ", "s", "u", "b", "s", "t", "a", "n", "t", "i", "a", "l", " ", "f", "i", "r", "s", "t", " ", "l", "i", "n", "e", "\n", "s", "e", "c", "o", "n", "d", " ", "l", "i", "n", "e", " ", "o", "f", " ", "t", "e", "x", "t">>>>,
      <<<<"s", "h", "o", "r", "t", "\n">>>>,
      <<<<>>, <<" ", "\n", "S", "e", "c", "o", "n", "d", " ", "p", "a", "g", "e", " ", "h", "a", "s", " ", "a", " ", "l", "i", "n", "e">>>> }

MaxTitleBlocks == 2

TitleInit ==
    /\ AppsIdle
    /\ call \in { [fn |-> "convert", meta |-> m, blocks |-> bs, pages |-> pg,
                   stem |-> <<"a">>] :
                    m \in TitleMetas, bs \in SeqsUpTo(TitleHeadings, MaxTitleBlocks),
                    pg \in TitlePageTexts }
    /\ ret = <<>>
    /\ stats = ZeroStats
    /\ ExtractIdle

\* if output_path is None: ... pdf_name = doc_title or Path(pdf_path).stem
NameOutput ==
    /\ ret = <<>>
    /\ ret' = <<OutputName(call.meta, call.blocks, call.pages, call.stem)>>
    /\ UNCHANGED <<varsApps, call, stats, varsExtract, varsConvert>>

SpecTitle == TitleInit /\ [][NameOutput]_vars

-----------------------------------------------------------------------------
(* Claim about the output name, checked under SpecTitle *)

\* The usable title of each source, as <<title>>, <<>> when the source has
\* none: the metadata title of more than 3 characters; the first heading
\* among the first 50 blocks of more than 5 and fewer than 200 characters;
\* the first substantial line of the first pages.
UsableMeta == IF Len(Strip(call.meta)) > MetaMinLen THEN <<Strip(call.meta)>> ELSE <<>>
UsableHeading ==
    LET cleaned == [i \in DOMAIN call.blocks |->
                       StripHeadingMarks(Strip(call.blocks[i].text))]
        good == { i \in DOMAIN call.blocks :
                    /\ i <= TitleBlocks
                    /\ call.blocks[i].block_type = "heading"
                    /\ Len(cleaned[i]) > HeadingMinLen /\ Len(cleaned[i]) < TitleMaxLen }
    IN  IF good = {} THEN <<>>
        ELSE <<cleaned[CHOOSE i \in good : \A j \in good : i <= j]>>
UsableLine == FirstSubstantialLine(Take(call.pages, TitlePages))

\* C22: the name is the sanitized title of the first source, in the order
\* metadata title, heading block, substantial text line, that has a usable
\* one, and the file's stem when none has; in particular the substantial
\* line is used whenever metadata and headings yield nothing.
C22_NameByPriority ==
    Returned =>
        ret[1] = IF UsableMeta # <<>> THEN sanitize_filename(UsableMeta[1], DefaultMaxLength)
                 ELSE IF UsableHeading # <<>>
                      THEN sanitize_filename(UsableHeading[1], DefaultMaxLength)
                 ELSE IF UsableLine # <<>>
                      THEN sanitize_filename(UsableLine[1], DefaultMaxLength)
                 ELSE call.stem

-----------------------------------------------------------------------------
(* SpecSpans: the block loop body of extract_text_blocks applied to one     *)
(* source block                                                             *)

MaxFontSpans == 3

\* The spans of the block: a word in a font without a name; upper-case
\* letters in a large bold italic font; a blank; a word without a size.
FontSpans ==
    { [text |-> <<"x">>, size |-> 10, font |-> "", flags |-> 0],
      [text |-> <<"A", "B">>, size |-> 24, font |-> "F2", flags |-> 18],
      [text |-> <<" ">>, size |-> 30, font |-> "F3", flags |-> 2],
      [text |-> <<"y">>, size |-> 0, font |-> "F1", flags |-> 16] }

SpansInit ==
    /\ AppsIdle
    /\ call \in { [fn |-> "extract_text_blocks",
                   block |-> [has_lines |-> TRUE, spans |-> sp, y0 |-> 0, y1 |-> 10]] :
                    sp \in SeqsUpTo(FontSpans, MaxFontSpans) }
    /\ ret = <<>>
    /\ stats = ZeroStats
    /\ ExtractIdle

\* One iteration of "for block in text_dict['blocks']" on the first page
ReadSpans ==
    /\ ret = <<>>
    /\ ret' = <<BuildBlock(call.block, 0)>>
    /\ UNCHANGED <<varsApps, call, stats, varsExtract, varsConvert>>

SpecSpans == SpansInit /\ [][ReadSpans]_vars

-----------------------------------------------------------------------------
(* Claim about the font of a block, checked under SpecSpans *)

\* The first span of the block whose text is not whitespace-only
FirstTextSpan ==
    LET sp == call.block.spans
    IN  sp[CHOOSE k \in DOMAIN sp :
              /\ Strip(sp[k].text) # <<>>
              /\ \A j \in 1..(k - 1) : Strip(sp[j].text) = <<>>]

\* C24: a block that is made has the font name, bold flag and italic flag of
\* its first span with text, whatever later spans carry, and that span's
\* font size, or 12 when that size is not positive.
C24_FontOfFirstTextSpan ==
    (Returned /\ ret[1] # <<>>) =>
        LET b == ret[1][1]
            s == FirstTextSpan
        IN  /\ b.font_name = s.font
            /\ b.font_size = (IF s.size > 0 THEN s.size ELSE DefaultFontSize)
            /\ b.is_bold = HasBit(s.flags, BoldBit)
            /\ b.is_italic = HasBit(s.flags, ItalicBit)

-----------------------------------------------------------------------------
(* SpecNormalize: normalize_text applied to a text and then to its result   *)

MaxNormLen == 3

\* The characters of the texts: a lower-case and an upper-case letter, a
\* full stop, the ellipsis U+2026, a blank, a newline, a control character.
NormChars == {"a", "B", ".", "ELLIPSIS", " ", "\n", "CTRL"}

NormalizeInit ==
    /\ AppsIdle
    /\ call \in { [fn |-> "normalize_text", text |-> t] :
                    t \in SeqsUpTo(NormChars, MaxNormLen) }
    /\ ret = <<>>
    /\ stats = ZeroStats
    /\ ExtractIdle

\* y = normalize_text(x)
Normalize ==
    /\ ret = <<>>
    /\ ret' = <<normalize_text(call.text)>>
    /\ UNCHANGED <<varsApps, call, stats, varsExtract, varsConvert>>

\* z = normalize_text(y)
NormalizeAgain ==
    /\ Len(ret) = 1
    /\ ret' = Append(ret, normalize_text(ret[1]))
    /\ UNCHANGED <<varsApps, call, stats, varsExtract, varsConvert>>

SpecNormalize == NormalizeInit /\ [][Normalize \/ NormalizeAgain]_vars

-----------------------------------------------------------------------------
(* Claim about normalize_text, checked under SpecNormalize *)

\* C25: normalizing a normalized text changes nothing.
C25_NormalizeIdempotent == Len(ret) = 2 => ret[2] = ret[1]

-----------------------------------------------------------------------------
(* PythonEngine: the message loop of engine_main.py *)

\* msg_type.upper()
UpperText(s) == [i \in DOMAIN s |-> ToUpper(s[i])]

BuiltinTypes ==
    { <<"P", "I", "N", "G">>,
      <<"S", "H", "U", "T", "D", "O", "W", "N">>,
      <<"H", "E", "A", "L", "T", "H", "_", "C", "H", "E", "C", "K">>,
      <<"G", "E", "T", "_", "S", "T", "A", "T", "U", "S">> }
ShutdownType == <<"S", "H", "U", "T", "D", "O", "W", "N">>

\* The types served by the handler modules (Excel, PDF, image, template)
ModuleTypes ==
    { <<"E", "X", "P", "O", "R", "T", "_", "E", "X", "C", "E", "L">>,
      <<"P", "D", "F", "_", "M", "E", "R", "G", "E">> }

\* _make_error_response(msg_id, code, message)
ErrorResponse(msg_id, code) ==
    [kind |-> "response", id |-> msg_id, success |-> FALSE, code |-> code]
\* A handler's {"id": msg_id, "success": True, "result": ...}
SuccessResponse(msg_id) ==
    [kind |-> "response", id |-> msg_id, success |-> TRUE, code |-> ""]
\* The READY message of _send_ready
ReadyMessage == [kind |-> "READY", id |-> "null", success |-> TRUE, code |-> ""]

\* _handle_shutdown with "self.running = False" left out
RunningAfter_Unchanged(msg_type, running) == running

\* self.running after _dispatch(msg_type, ...): _handle_shutdown clears it
RunningAfter(msg_type, running) ==
    IF UpperText(msg_type) = ShutdownType THEN FALSE ELSE running

\* _dispatch(msg_type, params, msg_id): <<"return", response>>, or <<"raise">>
\* when it raises.  line.type_is_str tells whether the type is a string
\* (upper() exists), line.handler what the handler module does with the
\* request: "unavailable" (not imported), "success", "error" (it returns an
\* error response) or "raises".
_dispatch(line, msg_type, msg_id) ==
    IF ~line.type_is_str THEN <<"raise">>
    ELSE LET t == UpperText(msg_type)
         IN  IF t \in BuiltinTypes THEN <<"return", SuccessResponse(msg_id)>>
             ELSE IF t \in ModuleTypes
                  THEN CASE line.handler = "unavailable" ->
                                <<"return", ErrorResponse(msg_id, "UNAVAILABLE")>>
                         [] line.handler = "success" ->
                                <<"return", SuccessResponse(msg_id)>>
                         [] line.handler = "error" ->
                                <<"return", ErrorResponse(msg_id, "HANDLER_ERROR")>>
                         [] OTHER -> <<"raise">>
                  ELSE <<"return", ErrorResponse(msg_id, "UNKNOWN_TYPE")>>

\* _process_message(line): the lines it prints, whether it leaves by an
\* exception that it does not catch, and self.running afterwards.
\* line.kind is what json.loads makes of the line: "text" when it raises
\* JSONDecodeError, "value" for JSON that is no object (a list, a number, a
\* string, null), "object" for a dict with the keys id, type and method.
_process_message(line, running) ==
    IF line.kind = "text"
    THEN [out |-> <<ErrorResponse("null", "PARSE_ERROR")>>, escaped |-> FALSE,
          running |-> running]
    ELSE IF line.kind = "value"
    THEN \* message.get("id") raises AttributeError outside the try blocks
         [out |-> <<>>, escaped |-> TRUE, running |-> running]
    ELSE LET msg_id == line.id
             msg_type == IF line.type # <<>> THEN line.type ELSE line.method
         IN  IF msg_type = <<>>
             THEN [out |-> <<ErrorResponse(msg_id, "MISSING_TYPE")>>,
                   escaped |-> FALSE, running |-> running]
             ELSE LET d == _dispatch(line, msg_type, msg_id)
                  IN  IF d[1] = "return"
                      THEN [out |-> <<d[2]>>, escaped |-> FALSE,
                            running |-> RunningAfter(msg_type, running)]
                      ELSE [out |-> <<ErrorResponse(msg_id, "PROCESSING_ERROR")>>,
                            escaped |-> FALSE, running |-> running]

-----------------------------------------------------------------------------
(* SpecEngine: the engine started on a stdin holding some lines *)

MaxLines == 3

\* A line of stdin, as json.loads sees it after strip()
ObjectLine(id, type, type_is_str, method, handler) ==
    [kind |-> "object", id |-> id, type |-> type, type_is_str |-> type_is_str,
     method |-> method, handler |-> handler]

\* The lines of stdin: a blank line, text that is no JSON, JSON that is no
\* object; objects with and without id and type, with a known or an unknown
\* type in either case of letters, with the type under "method", with a
\* number for a type; requests to a handler module in each of its outcomes.
EngineLines ==
    { [ObjectLine("null", <<>>, TRUE, <<>>, "success") EXCEPT !.kind = k] :
        k \in {"blank", "text", "value"} }
    \cup { ObjectLine("null", <<>>, TRUE, <<>>, "success") }
    \cup { ObjectLine("r1", t, TRUE, <<>>, "success") :
             t \in { <<"P", "I", "N", "G">>,
                     <<"s", "h", "u", "t", "d", "o", "w", "n">>,
                     <<"N", "O", "P", "E">> } }
    \cup { ObjectLine("r2", <<>>, TRUE, ShutdownType, "success"),
           ObjectLine("r2", <<"5">>, FALSE, <<>>, "success") }
    \cup { ObjectLine("r3", <<"p", "d", "f", "_", "m", "e", "r", "g", "e">>, TRUE, <<>>, h) :
             h \in {"unavailable", "success", "error", "raises"} }

EngineInit ==
    /\ engine \in { [pc |-> "start", running |-> TRUE, stdin |-> ls, stdout |-> <<>>,
                     log |-> <<>>] : ls \in SeqsUpTo(EngineLines, MaxLines) }
    /\ batch = NoValue /\ gui = NoValue
    /\ PureIdle /\ StatsIdle /\ ExtractIdle

\* run(): self._send_ready()
SendReady ==
    /\ engine.pc = "start"
    /\ engine' = [engine EXCEPT !.pc = "loop", !.stdout = Append(@, ReadyMessage)]
    /\ UNCHANGED <<batch, gui, call, ret, stats, varsExtract, varsConvert>>

\* while self.running: readline() returns '': break
ReadEof ==
    /\ engine.pc = "loop" /\ engine.running /\ engine.stdin = <<>>
    /\ engine' = [engine EXCEPT !.pc = "stopped"]
    /\ UNCHANGED <<batch, gui, call, ret, stats, varsExtract, varsConvert>>

\* One iteration of the loop on a line that strip() leaves empty: continue
SkipBlankLine ==
    /\ engine.pc = "loop" /\ engine.running /\ engine.stdin # <<>>
    /\ Head(engine.stdin).kind = "blank"
    /\ engine' = [engine EXCEPT !.stdin = Tail(@)]
    /\ UNCHANGED <<batch, gui, call, ret, stats, varsExtract, varsConvert>>

\* One iteration of the loop on a non-empty line: _process_message(line);
\* an exception it lets through is logged by run() and the loop goes on.
\* log records the line and what was printed for it.
ProcessLine ==
    /\ engine.pc = "loop" /\ engine.running /\ engine.stdin # <<>>
    /\ Head(engine.stdin).kind # "blank"
    /\ LET line == Head(engine.stdin)
           r == _process_message(line, engine.running)
       IN  engine' = [engine EXCEPT !.stdin = Tail(@),
                                    !.stdout = @ \o r.out,
                                    !.running = r.running,
                                    !.log = Append(@, [line |-> line, out |-> r.out])]
    /\ UNCHANGED <<batch, gui, call, ret, stats, varsExtract, varsConvert>>

\* The test of "while self.running" fails: the loop ends
LeaveLoop ==
    /\ engine.pc = "loop" /\ ~engine.running
    /\ engine' = [engine EXCEPT !.pc = "stopped"]
    /\ UNCHANGED <<batch, gui, call, ret, stats, varsExtract, varsConvert>>

EngineNext == SendReady \/ ReadEof \/ SkipBlankLine \/ ProcessLine \/ LeaveLoop

SpecEngine == EngineInit /\ [][EngineNext]_vars

-----------------------------------------------------------------------------
(* Claims about the engine, checked under SpecEngine *)

\* C26: for every non-empty line read, exactly one response line was
\* written, and it carries the id of the request (null when the line is
\* not JSON).
C26_OneResponsePerLine ==
    \A i \in DOMAIN engine.log :
        LET e == engine.log[i]
        IN  /\ Len(e.out) = 1
            /\ e.out[1].kind = "response"
            /\ e.out[1].id = (IF e.line.kind = "object" THEN e.line.id ELSE "null")

\* The line is a message of type SHUTDOWN
IsShutdown(line) ==
    /\ line.kind = "object" /\ line.type_is_str
    /\ UpperText(IF line.type # <<>> THEN line.type ELSE line.method) = ShutdownType

\* C28: the engine has stopped running exactly when the last
\* line it processed is a SHUTDOWN message; that message was answered with
\* a success response carrying its id, which is the last line written; no
\* line before it was a SHUTDOWN message; and while the engine runs and a
\* line is waiting, the loop can take it.
C28_StopsExactlyOnShutdown ==
    LET n == Len(engine.log)
    IN  /\ engine.running = ~(n > 0 /\ IsShutdown(engine.log[n].line))
        /\ \A i \in 1..(n - 1) : ~IsShutdown(engine.log[i].line)
        /\ (n > 0 /\ IsShutdown(engine.log[n].line)) =>
              /\ engine.log[n].out = <<SuccessResponse(engine.log[n].line.id)>>
              /\ engine.stdout[Len(engine.stdout)] = SuccessResponse(engine.log[n].line.id)
        /\ (engine.running /\ engine.pc = "loop" /\ engine.stdin # <<>>) =>
              ENABLED (SkipBlankLine \/ ProcessLine)

\* A line that is JSON but no object was left unanswered, the next message,
\* a SHUTDOWN, was answered, and the loop has ended with a line left unread.
C28_Witness ==
    /\ engine.pc = "stopped" /\ ~engine.running
    /\ Len(engine.log) = 2
    /\ engine.log[1].line.kind = "value"
    /\ IsShutdown(engine.log[2].line)
    /\ engine.stdin # <<>>

-----------------------------------------------------------------------------
(* find_pdf_files and batch_convert *)

\* The characters of the file names in ascending order of code point
CodeOrder == <<".", "B", "D", "F", "P", "a", "b", "c", "d", "f", "p", "t", "x">>

\* s < t for Python strings: the first differing character decides, a
\* proper prefix is smaller.
RECURSIVE StrLess(_, _)
StrLess(s, t) ==
    IF t = <<>> THEN FALSE
    ELSE IF s = <<>> THEN TRUE
    ELSE IF s[1] = t[1] THEN StrLess(Tail(s), Tail(t))
    ELSE IndexOf(CodeOrder, s[1]) < IndexOf(CodeOrder, t[1])

\* find_pdf_files with the result left in the order of the listing
sorted_Unsorted(names) == names

\* sorted(names)
RECURSIVE sorted(_)
sorted(names) ==
    IF names = <<>> THEN <<>>
    ELSE LET least == CHOOSE i \in DOMAIN names :
                         \A j \in DOMAIN names : ~StrLess(names[j], names[i])
         IN  <<names[least]>>
             \o sorted(SubSeq(names, 1, least - 1) \o SubSeq(names, least + 1, Len(names)))

\* find_pdf_files(input_path, recursive).  kind tells what input_path is: a
\* "file" (listing holds its name), a "dir" (listing holds the names of the
\* files below it in the order glob yields them) or "missing".  The pattern
\* "*.pdf" is matched with the case of the letters, path.suffix.lower()
\* without it.
find_pdf_files(kind, listing) ==
    IF kind = "file"
    THEN sorted(SelectSeq(listing, LAMBDA f : EndsWith(LowerText(f), PdfSuffix)))
    ELSE IF kind = "dir"
    THEN sorted(SelectSeq(listing, LAMBDA f : EndsWith(f, PdfSuffix)))
    ELSE sorted(<<>>)

\* batch_convert with "break" left out
BreaksLoop_Never(continue_on_error) == FALSE

\* if not continue_on_error: break
BreaksLoop(continue_on_error) == ~continue_on_error

-----------------------------------------------------------------------------
(* SpecBatch: batch_convert on a path *)

MaxFiles == 3

BatchNames ==
    { <<"a", ".", "p", "d", "f">>,
      <<"B", ".", "p", "d", "f">>,
      <<"b", ".", "p", "d", "f">>,
      <<"c", ".", "t", "x", "t">>,
      <<"D", ".", "P", "D", "F">> }

\* The sequences without repetition of up to n names
RECURSIVE Listings(_, _)
Listings(S, n) ==
    IF n = 0 THEN {<<>>}
    ELSE LET shorter == Listings(S, n - 1)
         IN  shorter \cup { Append(q, e) : q \in {r \in shorter : Len(r) = n - 1},
                                           e \in S }

BatchPaths ==
    { [kind |-> "dir", listing |-> l] :
        l \in { q \in Listings(BatchNames, MaxFiles) :
                  \A i, j \in DOMAIN q : i # j => q[i] # q[j] } }
    \cup { [kind |-> "file", listing |-> <<f>>] : f \in BatchNames }
    \cup { [kind |-> "missing", listing |-> <<>>] }

BatchInit ==
    /\ batch \in { [pc |-> "start", input_path |-> p, continue_on_error |-> c,
                    pdf_files |-> <<>>, idx |-> 0, total |-> 0, success |-> 0,
                    failed |-> 0, results |-> <<>>, converted |-> <<>>] :
                     p \in BatchPaths, c \in BOOLEAN }
    /\ engine = NoValue /\ gui = NoValue
    /\ PureIdle /\ StatsIdle /\ ExtractIdle

\* pdf_files = find_pdf_files(input_path, recursive); without files the
\* function returns at once, else stats is set up and the loop begins.
BatchFind ==
    /\ batch.pc = "start"
    /\ LET found == find_pdf_files(batch.input_path.kind, batch.input_path.listing)
       IN  batch' = [batch EXCEPT !.pdf_files = found,
                                  !.total = Len(found),
                                  !.idx = 1,
                                  !.pc = IF found = <<>> THEN "done" ELSE "loop"]
    /\ UNCHANGED <<engine, gui, call, ret, stats, varsExtract, varsConvert>>

\* One iteration of the loop in which converter.convert returns.
\* converted records the files convert was called on.
BatchSuccess ==
    /\ batch.pc = "loop" /\ batch.idx <= Len(batch.pdf_files)
    /\ LET pdf_file == batch.pdf_files[batch.idx]
       IN  batch' = [batch EXCEPT !.converted = Append(@, pdf_file),
                                  !.success = @ + 1,
                                  !.results = Append(@, [input |-> pdf_file,
                                                         status |-> "success"]),
                                  !.idx = @ + 1]
    /\ UNCHANGED <<engine, gui, call, ret, stats, varsExtract, varsConvert>>

\* One iteration of the loop in which converter.convert raises
BatchFailure ==
    /\ batch.pc = "loop" /\ batch.idx <= Len(batch.pdf_files)
    /\ LET pdf_file == batch.pdf_files[batch.idx]
       IN  batch' = [batch EXCEPT !.converted = Append(@, pdf_file),
                                  !.failed = @ + 1,
                                  !.results = Append(@, [input |-> pdf_file,
                                                         status |-> "failed"]),
                                  !.idx = @ + 1,
                                  !.pc = IF BreaksLoop(batch.continue_on_error)
                                         THEN "break" ELSE "loop"]
    /\ UNCHANGED <<engine, gui, call, ret, stats, varsExtract, varsConvert>>

\* The loop is over (exhausted or left by break): the statistics are
\* written and returned.
BatchReturn ==
    /\ \/ batch.pc = "loop" /\ batch.idx > Len(batch.pdf_files)
       \/ batch.pc = "break"
    /\ batch' = [batch EXCEPT !.pc = "done"]
    /\ UNCHANGED <<engine, gui, call, ret, stats, varsExtract, varsConvert>>

BatchNext == BatchFind \/ BatchSuccess \/ BatchFailure \/ BatchReturn

SpecBatch == BatchInit /\ [][BatchNext]_vars

-----------------------------------------------------------------------------
(* Claim about batch_convert, checked under SpecBatch *)

\* The positions of the failed entries of results
FailedEntries == { i \in DOMAIN batch.results : batch.results[i].status = "failed" }

\* C27: the files found are in ascending order; convert has been called on
\* a prefix of them, one call and one result entry per file, and success +
\* failed counts the entries; with continue_on_error the call ends with
\* every file processed and success + failed = total; without it nothing
\* is processed after a failure, and the call ends either with every file
\* processed or with success + failed equal to the position of the first
\* failure.
C27_SortedOnePerFileAndPolicy ==
    LET n == Len(batch.results)
    IN  /\ \A i \in 1..(Len(batch.pdf_files) - 1) :
               StrLess(batch.pdf_files[i], batch.pdf_files[i + 1])
        /\ n <= Len(batch.pdf_files)
        /\ batch.converted = SubSeq(batch.pdf_files, 1, n)
        /\ \A i \in 1..n : batch.results[i].input = batch.pdf_files[i]
        /\ batch.success + batch.failed = n
        /\ batch.failed = Cardinality(FailedEntries)
        /\ batch.pc # "start" => batch.total = Len(batch.pdf_files)
        /\ (batch.pc = "done" /\ batch.continue_on_error) => n = batch.total
        /\ ~batch.continue_on_error => FailedEntries \subseteq {n}
        /\ (batch.pc = "done" /\ ~batch.continue_on_error /\ FailedEntries = {}) =>
               n = batch.total

\* Without continue_on_error, three files were found in a directory that
\* lists them out of order, the second failed, and the call has ended with
\* the third not converted.
C27_Witness ==
    /\ batch.pc = "done" /\ ~batch.continue_on_error
    /\ batch.total = 3 /\ batch.input_path.listing # batch.pdf_files
    /\ Len(batch.results) = 2 /\ FailedEntries = {2}
    /\ batch.success = 1 /\ batch.failed = 1

-----------------------------------------------------------------------------
(* PDFConverterGUI: Start, Stop and the conversion worker threads *)

MaxStarts == 2
MaxRunFiles == 2

\* A thread running convert_thread.  stop_confirmed and late are history:
\* whether the user confirmed Stop while this thread was the worker of the
\* run in progress, and how many convert calls it started after that.
NewWorker == [pc |-> "begin", idx |-> 0, converts |-> 0, stop_confirmed |-> FALSE,
              late |-> 0]

\* finish_conversion(): the fields and the buttons after it
finish_conversion(g) ==
    [g EXCEPT !.is_processing = FALSE, !.start_enabled = TRUE, !.stop_enabled = FALSE]

\* __init__ and create_widgets: no worker, Start enabled, Stop disabled
GuiInit ==
    /\ gui = [is_processing |-> FALSE, stop_requested |-> FALSE,
              start_enabled |-> TRUE, stop_enabled |-> FALSE,
              workers |-> <<>>, after |-> <<>>]
    /\ engine = NoValue /\ batch = NoValue
    /\ PureIdle /\ StatsIdle /\ ExtractIdle

\* The Start button is pressed and validate_inputs() holds:
\* start_conversion resets the flags, swaps the buttons and starts a thread.
StartConversion ==
    /\ gui.start_enabled
    /\ Len(gui.workers) < MaxStarts
    /\ ~gui.is_processing
    /\ gui' = [gui EXCEPT !.stop_requested = FALSE,
                          !.is_processing = TRUE,
                          !.start_enabled = FALSE,
                          !.stop_enabled = TRUE,
                          !.workers = Append(@, NewWorker)]
    /\ UNCHANGED <<engine, batch, call, ret, stats, varsExtract, varsConvert>>

\* The Stop button is pressed and the user answers yes: stop_conversion
\* sets the flags and calls finish_conversion().
StopConversion ==
    /\ gui.stop_enabled
    /\ LET n == Len(gui.workers)
           g == [gui EXCEPT !.stop_requested = TRUE,
                            !.workers = [i \in DOMAIN @ |->
                                IF i = n /\ @[i].pc # "exit"
                                THEN [@[i] EXCEPT !.stop_confirmed = TRUE]
                                ELSE @[i]]]
       IN  gui' = finish_conversion(g)
    /\ UNCHANGED <<engine, batch, call, ret, stats, varsExtract, varsConvert>>

\* convert_thread up to the loop: the inputs are read, the files found
WorkerBegin(w) ==
    /\ gui.workers[w].pc = "begin"
    /\ gui' = [gui EXCEPT !.workers[w].pc = "check", !.workers[w].idx = 1]
    /\ UNCHANGED <<engine, batch, call, ret, stats, varsExtract, varsConvert>>

\* The head of the loop with a file left and neither flag telling to stop:
\* converter.convert is called on the file.
WorkerConvert(w) ==
    /\ gui.workers[w].pc = "check"
    /\ gui.workers[w].idx <= MaxRunFiles
    /\ ~(gui.stop_requested \/ ~gui.is_processing)
    /\ gui' = [gui EXCEPT !.workers[w].pc = "convert",
                          !.workers[w].converts = @ + 1,
                          !.workers[w].late =
                              IF gui.workers[w].stop_confirmed THEN @ + 1 ELSE @]
    /\ UNCHANGED <<engine, batch, call, ret, stats, varsExtract, varsConvert>>

\* converter.convert returns or raises: the loop goes to the next file
WorkerConverted(w) ==
    /\ gui.workers[w].pc = "convert"
    /\ gui' = [gui EXCEPT !.workers[w].pc = "check", !.workers[w].idx = @ + 1]
    /\ UNCHANGED <<engine, batch, call, ret, stats, varsExtract, varsConvert>>

\* The loop ends, by exhaustion or by "break" on a flag: the thread
\* schedules finish_conversion_with_stats on the main thread and ends.
WorkerExit(w) ==
    /\ gui.workers[w].pc = "check"
    /\ \/ gui.workers[w].idx > MaxRunFiles
       \/ gui.stop_requested \/ ~gui.is_processing
    /\ gui' = [gui EXCEPT !.workers[w].pc = "exit",
                          !.after = Append(@, "finish_conversion_with_stats")]
    /\ UNCHANGED <<engine, batch, call, ret, stats, varsExtract, varsConvert>>

\* The main loop runs a scheduled finish_conversion_with_stats, which calls
\* finish_conversion().
RunAfter ==
    /\ gui.after # <<>>
    /\ gui' = [finish_conversion(gui) EXCEPT !.after = Tail(@)]
    /\ UNCHANGED <<engine, batch, call, ret, stats, varsExtract, varsConvert>>

GuiNext ==
    \/ StartConversion
    \/ StopConversion
    \/ \E w \in DOMAIN gui.workers :
          WorkerBegin(w) \/ WorkerConvert(w) \/ WorkerConverted(w) \/ WorkerExit(w)
    \/ RunAfter

SpecGui == GuiInit /\ [][GuiNext]_vars

-----------------------------------------------------------------------------
(* Claims about the GUI, checked under SpecGui *)

\* C29: no worker has started a convert call after the user confirmed Stop
\* for its run.
C29_NoConvertAfterStop ==
    \A w \in DOMAIN gui.workers : gui.workers[w].late = 0

\* C30: at most one worker thread is running.
C30_AtMostOneWorker ==
    Cardinality({ w \in DOMAIN gui.workers : gui.workers[w].pc # "exit" }) <= 1

=============================================================================
